---------------------------- MODULE Spec2Model ----------------------------
(***************************************************************************)
(* A model of the check-protocol engine of bufplugin-go (package check):   *)
(* the response collector (multiResponseWriter), the provider-side         *)
(* checkServiceHandler, the Request and its chunking, the Client and the   *)
(* MultiClient.                                                            *)
(*                                                                         *)
(* Conventions.                                                            *)
(*  - A rule ID is a natural number >= 1; the order of the numbers is the  *)
(*    lexical order of the ID strings, and 0 is the empty string "".       *)
(*  - A file name is a string; strings.Compare on file names is StrRank.   *)
(*  - A nil pointer or nil interface is a record with present = FALSE.     *)
(*  - A source path is a sequence of naturals.                             *)
(***************************************************************************)
EXTENDS Naturals, Integers, Sequences, FiniteSets, Bags, TLC

(***************************************************************************)
(* Bounds of the model.                                                    *)
(***************************************************************************)
\* AddAnnotation calls the concurrent writers make in all
MaxAdds == 2
\* rule IDs are 1..MaxRuleID
MaxRuleID == 3
\* a Request names up to MaxChunks full chunks of rule IDs, and one more ID
MaxChunks == 2
\* a caller's paging loop makes up to MaxPageCalls ListRules calls
MaxPageCalls == 6
\* the concurrent callers of a Client make up to MaxListCalls listing calls
MaxListCalls == 3
\* of the first fetches of a listing, up to MaxFaults fail
MaxFaults == 2
\* a Spec holds up to MaxSpecs RuleSpecs and CategorySpecs in all
MaxSpecs == 3
\* a caller passes up to MaxOptions WithOption options to NewRequest
MaxOptions == 2

(***************************************************************************)
(* State.  The specifications of this module each use their own variables  *)
(* and leave the others at their initial values.                           *)
(***************************************************************************)
\* SpecCollector: one collector shared by concurrent goroutines
VARIABLES
    collector,  \* the multiResponseWriter
    lockW,      \* the writer that holds m.lock exclusively, or "none"
    lockR,      \* the finalizers that hold m.lock shared
    wpc,        \* each writer's position in addAnnotation
    wopts,      \* the options of the writer's call in progress
    wnew,       \* the collector the body of the writer's call computed
    wcount,     \* AddAnnotation calls the writers have made
    fpc,        \* each finalizer's position in toResponse
    fresult,    \* what each finalizer's toResponse returned
    fseen,      \* the slice each finalizer's sort compared the elements of
    hist        \* history of the calls made, for stating the properties

\* SpecCheck: one Check call on a provider, a Client or a MultiClient
VARIABLES
    clients,    \* the MultiClient's delegates: each a Client on its provider
    callerRequest, \* the caller's Request
    mc,         \* the position and the locals of the Check call in progress
    cresult,    \* what the Check call returned
    lresult,    \* what the MultiClient's ListRules call returned
    calls       \* per delegate, the calls its provider received

\* SpecRequest: one Request built and serialized
VARIABLES
    rpc,        \* the position: "new", "built" or "sent"
    given,      \* the files, against files, options and rule IDs given
    built,      \* what NewRequest returned
    protos      \* what toProtos returned

\* SpecChunked: one Client.Check with more than 250 rule IDs, and the same
\* Check over a transport that does not chunk
VARIABLES
    ckProvider, \* the provider: a checkServiceHandler
    ckRequest,  \* the caller's Request
    ckChunked,  \* what Client.Check returned, and the CheckRequests it sent
    ckUnchunked \* what the Check with one CheckRequest returned

\* SpecListing: concurrent ListRules and ListCategories calls on one Client
VARIABLES
    lsProvider, \* the provider: a checkServiceHandler
    lsClient,   \* the client: cacheRulesAndCategories and the cached values
    lsRulesLock,      \* client.rulesLock: its writer (0: none), its readers
    lsCategoriesLock, \* client.categoriesLock
    lsCallers,  \* each caller's position, locals and last return value
    lsCalls,    \* the calls made
    lsFetches,  \* the listings fetched from the provider
    lsFaults    \* of the next fetches of each listing, how many are to fail

\* SpecPaging: the rules of one provider listed page by page
VARIABLES
    pgProvider, \* the provider: a checkServiceHandler
    pgSize,     \* the page size of the caller's paging loop
    pgToken,    \* the loop's pageToken
    pgSent,     \* the ListRulesRequests the provider received
    pgResponse, \* the provider's last ListRulesResponse
    pgRules,    \* the loop's protoRules
    pgPc,       \* "start", "probed", "paging", "paged", "failed" or "listed"
    pgListing   \* what Client.ListRules returned

\* SpecValidate: the validation of a Spec, and the provider made of it
VARIABLES
    vdSpec,     \* the Spec given: [Rules, Categories]
    vdResult    \* what the validators returned and what the provider lists

\* SpecNewRequest: the construction of a Request from a caller's arguments
VARIABLES
    nrGiven,    \* the arguments: [files, againstFiles, options, ruleIDs]
    nrResult    \* [pc, request, err]: what the constructor returned

\* SpecAnnotate: one AddAnnotation call on a new collector
VARIABLES
    aaOptions,  \* the addAnnotationOptions the call's options make
    aaResult    \* [pc, m]: the position and the collector

collectorVars ==
    <<collector, lockW, lockR, wpc, wopts, wnew, wcount, fpc, fresult, fseen, hist>>

checkVars == <<clients, callerRequest, mc, cresult, lresult, calls>>

requestVars == <<rpc, given, built, protos>>

pagingVars ==
    <<pgProvider, pgSize, pgToken, pgSent, pgResponse, pgRules, pgPc, pgListing>>

chunkedVars == <<ckProvider, ckRequest, ckChunked, ckUnchunked>>

listingVars ==
    <<lsProvider, lsClient, lsRulesLock, lsCategoriesLock, lsCallers, lsCalls,
      lsFetches, lsFaults>>

validateVars == <<vdSpec, vdResult>>

newRequestVars == <<nrGiven, nrResult>>

annotateVars == <<aaOptions, aaResult>>

\* what the actions of each specification leave alone
otherThanCollector ==
    <<checkVars, requestVars, pagingVars, chunkedVars, listingVars,
      validateVars, newRequestVars, annotateVars>>

otherThanCheck ==
    <<collectorVars, requestVars, pagingVars, chunkedVars, listingVars,
      validateVars, newRequestVars, annotateVars>>

otherThanRequest ==
    <<collectorVars, checkVars, pagingVars, chunkedVars, listingVars,
      validateVars, newRequestVars, annotateVars>>

otherThanPaging ==
    <<collectorVars, checkVars, requestVars, chunkedVars, listingVars,
      validateVars, newRequestVars, annotateVars>>

otherThanChunked ==
    <<collectorVars, checkVars, requestVars, pagingVars, listingVars,
      validateVars, newRequestVars, annotateVars>>

otherThanListing ==
    <<collectorVars, checkVars, requestVars, pagingVars, chunkedVars,
      validateVars, newRequestVars, annotateVars>>

otherThanValidate ==
    <<collectorVars, checkVars, requestVars, pagingVars, chunkedVars,
      listingVars, newRequestVars, annotateVars>>

otherThanNewRequest ==
    <<collectorVars, checkVars, requestVars, pagingVars, chunkedVars,
      listingVars, validateVars, annotateVars>>

otherThanAnnotate ==
    <<collectorVars, checkVars, requestVars, pagingVars, chunkedVars,
      listingVars, validateVars, newRequestVars>>

vars ==
    <<collectorVars, checkVars, requestVars, pagingVars, chunkedVars,
      listingVars, validateVars, newRequestVars, annotateVars>>

(***************************************************************************)
(* Files, descriptors, locations, annotations.                             *)
(***************************************************************************)
\* the file names of the model, in strings.Compare order
FileNameOrder == <<"", "a.proto", "b.proto", "z.proto">>

StrRank(s) == CHOOSE i \in 1..Len(FileNameOrder) : FileNameOrder[i] = s

\* strings.Compare on file names
StrCompare(a, b) ==
    IF StrRank(a) < StrRank(b) THEN -1
    ELSE IF StrRank(a) > StrRank(b) THEN 1 ELSE 0

\* The source paths for which a file holds a source location.
KnownPaths == {<<4, 0>>, <<4, 1>>}

\* protoreflect SourceLocations().ByPath: the zero SourceLocation (empty
\* Path) when the file holds no location for the path.
ByPath(path) == IF path \in KnownPaths THEN path ELSE <<>>

NilDescriptor == [present |-> FALSE, file |-> "", path |-> <<>>]

\* A descriptor of the file named file ("" when ParentFile() is nil) whose
\* source location has the given path.
Descriptor(file, path) == [present |-> TRUE, file |-> file, path |-> path]

NilLocation == [present |-> FALSE, fileName |-> "", sourcePath |-> <<>>]

newLocation(fileName, sourcePath) ==
    [present |-> TRUE, fileName |-> fileName, sourcePath |-> sourcePath]

newAnnotation(ruleID, message, location, againstLocation) ==
    [ruleID |-> ruleID, message |-> message,
     location |-> location, againstLocation |-> againstLocation]

(***************************************************************************)
(* Comparison helpers and the annotation comparator.                       *)
(***************************************************************************)
intCompare(one, two) ==
    IF one < two THEN -1 ELSE IF one > two THEN 1 ELSE 0

\* nil sorts before non-nil
nilCompare(onePresent, twoPresent) ==
    IF ~onePresent /\ twoPresent THEN -1
    ELSE IF onePresent /\ ~twoPresent THEN 1 ELSE 0

\* the first compare value that is non-zero, or zero
RECURSIVE joinCompares(_)
joinCompares(compares) ==
    IF compares = <<>> THEN 0
    ELSE IF Head(compares) # 0 THEN Head(compares)
    ELSE joinCompares(Tail(compares))

\* lexical comparison of two source paths
RECURSIVE comparePaths(_, _)
comparePaths(p, q) ==
    IF p = <<>> /\ q = <<>> THEN 0
    ELSE IF p = <<>> THEN -1
    ELSE IF q = <<>> THEN 1
    ELSE IF Head(p) # Head(q) THEN intCompare(Head(p), Head(q))
    ELSE comparePaths(Tail(p), Tail(q))

\* a missing Location is minimal, then file name, then path
compareLocations(one, two) ==
    joinCompares(<<
        nilCompare(one.present, two.present),
        StrCompare(one.fileName, two.fileName),
        comparePaths(one.sourcePath, two.sourcePath)>>)

\* rule ID, then Location, then AgainstLocation
compareAnnotations(one, two) ==
    joinCompares(<<
        intCompare(one.ruleID, two.ruleID),
        compareLocations(one.location, two.location),
        compareLocations(one.againstLocation, two.againstLocation)>>)

\* sort.Slice(annotations, less): insertion of a into the sorted sequence s
RECURSIVE sortInsert(_, _)
sortInsert(s, a) ==
    IF s = <<>> THEN <<a>>
    ELSE IF compareAnnotations(a, Head(s)) < 0 THEN <<a>> \o s
    ELSE <<Head(s)>> \o sortInsert(Tail(s), a)

RECURSIVE sortAnnotations(_)
sortAnnotations(s) ==
    IF s = <<>> THEN <<>>
    ELSE sortInsert(sortAnnotations(Tail(s)), Head(s))

\* a faulty variant of newResponse: the sort is left out
newResponseUnsorted(annotations) == [annotations |-> annotations]

\* newResponse sorts the annotations it is given, in place
newResponse(annotations) == [annotations |-> sortAnnotations(annotations)]

(***************************************************************************)
(* The response collector: multiResponseWriter.                            *)
(***************************************************************************)
errCannotReuseResponseWriter == "cannot reuse ResponseWriter"
errDescriptorAndFileName ==
    "cannot call both WithDescriptor and WithFileName or WithSourcePath"
errAgainstDescriptorAndFileName ==
    "cannot call both WithAgainstDescriptor and WithAgainstFileName or WithAgainstSourcePath"
errPathWithoutFileName == "cannot call WithPath without WithFileName"
errAgainstPathWithoutFileName ==
    "cannot call WithAgainstPath without WithAgainstFileName"
errUnknownFile == "cannot add annotation for unknown file"
errDuplicateFileName == "duplicate file name"

\* no error
Nil == ""

newAddAnnotationOptions ==
    [message |-> "", descriptor |-> NilDescriptor,
     againstDescriptor |-> NilDescriptor,
     fileName |-> "", sourcePath |-> <<>>,
     againstFileName |-> "", againstSourcePath |-> <<>>]

WithMessage(o, message) == [o EXCEPT !.message = message]
WithDescriptor(o, d) == [o EXCEPT !.descriptor = d]
WithAgainstDescriptor(o, d) == [o EXCEPT !.againstDescriptor = d]
WithFileName(o, f) == [o EXCEPT !.fileName = f]
WithSourcePath(o, p) == [o EXCEPT !.sourcePath = p]
WithAgainstFileName(o, f) == [o EXCEPT !.againstFileName = f]
WithAgainstSourcePath(o, p) == [o EXCEPT !.againstSourcePath = p]

\* a faulty variant of validateAddAnnotationOptions: the Against options are
\* not looked at.
validateAddAnnotationOptionsNoAgainst(o) ==
    IF o.descriptor.present /\ (o.fileName # "" \/ Len(o.sourcePath) > 0)
    THEN errDescriptorAndFileName
    ELSE IF o.fileName = "" /\ Len(o.sourcePath) > 0
    THEN errPathWithoutFileName
    ELSE Nil

validateAddAnnotationOptions(o) ==
    IF o.descriptor.present /\ (o.fileName # "" \/ Len(o.sourcePath) > 0)
    THEN errDescriptorAndFileName
    ELSE IF o.againstDescriptor.present
            /\ (o.againstFileName # "" \/ Len(o.againstSourcePath) > 0)
    THEN errAgainstDescriptorAndFileName
    ELSE IF o.fileName = "" /\ Len(o.sourcePath) > 0
    THEN errPathWithoutFileName
    ELSE IF o.againstFileName = "" /\ Len(o.againstSourcePath) > 0
    THEN errAgainstPathWithoutFileName
    ELSE Nil

\* (Location, error) for one side of an annotation; fileNameToFile is the set
\* of the file names the collector knows (a File's identity is its path).
getLocationForAddAnnotationOptions(fileNameToFile, descriptor, fileName, path) ==
    IF descriptor.present
    THEN IF descriptor.file # ""
         THEN IF descriptor.file \notin fileNameToFile
              THEN [location |-> NilLocation, err |-> errUnknownFile]
              ELSE [location |-> newLocation(descriptor.file, descriptor.path),
                    err |-> Nil]
         ELSE [location |-> NilLocation, err |-> Nil]
    ELSE IF fileName # ""
    THEN IF fileName \notin fileNameToFile
         THEN [location |-> NilLocation, err |-> errUnknownFile]
         ELSE [location |->
                   newLocation(fileName,
                               IF Len(path) > 0 THEN ByPath(path) ELSE <<>>),
               err |-> Nil]
    ELSE [location |-> NilLocation, err |-> Nil]

\* the file names of a list of Files; err when two Files share a name
RECURSIVE fileNameToFileForFiles(_)
fileNameToFileForFiles(files) ==
    IF files = <<>> THEN [names |-> {}, err |-> Nil]
    ELSE LET rest == fileNameToFileForFiles(SubSeq(files, 1, Len(files) - 1))
             name == files[Len(files)].name
         IN  IF rest.err # Nil THEN rest
             ELSE IF name \in rest.names
             THEN [names |-> {}, err |-> errDuplicateFileName]
             ELSE [names |-> rest.names \cup {name}, err |-> Nil]

NilMultiResponseWriter ==
    [fileNameToFile |-> {}, againstFileNameToFile |-> {},
     annotations |-> <<>>, written |-> FALSE, errs |-> <<>>]

\* a faulty variant of newMultiResponseWriter: the error of the against files
\* is dropped.
newMultiResponseWriterIgnoresAgainst(request) ==
    LET f == fileNameToFileForFiles(request.files)
        a == fileNameToFileForFiles(request.againstFiles)
    IN  IF f.err # Nil THEN [m |-> NilMultiResponseWriter, err |-> f.err]
        ELSE [m |-> [NilMultiResponseWriter EXCEPT
                        !.fileNameToFile = f.names,
                        !.againstFileNameToFile = a.names],
              err |-> Nil]

\* (*multiResponseWriter, error)
newMultiResponseWriter(request) ==
    LET f == fileNameToFileForFiles(request.files)
        a == fileNameToFileForFiles(request.againstFiles)
    IN  IF f.err # Nil THEN [m |-> NilMultiResponseWriter, err |-> f.err]
        ELSE IF a.err # Nil THEN [m |-> NilMultiResponseWriter, err |-> a.err]
        ELSE [m |-> [NilMultiResponseWriter EXCEPT
                        !.fileNameToFile = f.names,
                        !.againstFileNameToFile = a.names],
              err |-> Nil]

\* a faulty variant of addAnnotation: the return after a location error is missing.
addAnnotationNoReturnOnLocationError(m, ruleID, o) ==
    LET verr == validateAddAnnotationOptions(o)
        loc == getLocationForAddAnnotationOptions(
                   m.fileNameToFile, o.descriptor, o.fileName, o.sourcePath)
        aloc == getLocationForAddAnnotationOptions(
                    m.againstFileNameToFile, o.againstDescriptor,
                    o.againstFileName, o.againstSourcePath)
        withErrs ==
            IF loc.err # Nil THEN [m EXCEPT !.errs = Append(@, loc.err)]
            ELSE IF aloc.err # Nil THEN [m EXCEPT !.errs = Append(@, aloc.err)]
            ELSE m
    IN  IF verr # Nil THEN [m EXCEPT !.errs = Append(@, verr)]
        ELSE IF m.written
        THEN [m EXCEPT !.errs = Append(@, errCannotReuseResponseWriter)]
        ELSE [withErrs EXCEPT !.annotations =
                 Append(@, newAnnotation(ruleID, o.message,
                                         loc.location, aloc.location))]

\* The body of addAnnotation between Lock and Unlock: the collector after the
\* call, computed from the collector m the call reads.
addAnnotation(m, ruleID, o) ==
    LET verr == validateAddAnnotationOptions(o)
        loc == getLocationForAddAnnotationOptions(
                   m.fileNameToFile, o.descriptor, o.fileName, o.sourcePath)
        aloc == getLocationForAddAnnotationOptions(
                    m.againstFileNameToFile, o.againstDescriptor,
                    o.againstFileName, o.againstSourcePath)
    IN  IF verr # Nil THEN [m EXCEPT !.errs = Append(@, verr)]
        ELSE IF m.written
        THEN [m EXCEPT !.errs = Append(@, errCannotReuseResponseWriter)]
        ELSE IF loc.err # Nil THEN [m EXCEPT !.errs = Append(@, loc.err)]
        ELSE IF aloc.err # Nil THEN [m EXCEPT !.errs = Append(@, aloc.err)]
        ELSE [m EXCEPT !.annotations =
                 Append(@, newAnnotation(ruleID, o.message,
                                         loc.location, aloc.location))]

\* results of toResponse: (Response, error)
NoError == [kind |-> "nil", errs |-> <<>>]
CannotReuseError == [kind |-> "cannotReuse", errs |-> <<>>]
JoinedError(errs) == [kind |-> "joined", errs |-> errs]
PlainError(msg) == [kind |-> "error", errs |-> <<msg>>]

Pending == [done |-> FALSE, ok |-> FALSE, annotations |-> <<>>, err |-> NoError]
ResponseResult(annotations) ==
    [done |-> TRUE, ok |-> TRUE, annotations |-> annotations, err |-> NoError]
ErrorResult(err) ==
    [done |-> TRUE, ok |-> FALSE, annotations |-> <<>>, err |-> err]

\* toResponse, the two checks before the write of m.written: the result the
\* call returns at once, or Pending when it goes on to produce a Response.
toResponseCheck(m) ==
    IF Len(m.errs) > 0 THEN ErrorResult(JoinedError(m.errs))
    ELSE IF m.written THEN ErrorResult(CannotReuseError)
    ELSE Pending

\* a faulty variant of toResponseWrite: m.written is never set.
toResponseWriteForgets(m) ==
    [m EXCEPT !.annotations = newResponse(m.annotations).annotations]

\* toResponse from m.written = true on: the collector after the call. The
\* Response shares the collector's annotation slice, which newResponse sorts.
toResponseWrite(m) ==
    [m EXCEPT !.written = TRUE,
              !.annotations = newResponse(m.annotations).annotations]

\* the order sort.Slice decides from the elements it compares: position k of
\* the sorted slice takes the element at sortOrder(seen)[k]; elements that
\* compare equal keep their order
sortOrder(seen) ==
    CHOOSE p \in [1..Len(seen) -> 1..Len(seen)] :
        /\ \A i, j \in 1..Len(seen) : i # j => p[i] # p[j]
        /\ \A i, j \in 1..Len(seen) :
               i < j => \/ compareAnnotations(seen[p[i]], seen[p[j]]) < 0
                        \/ /\ compareAnnotations(seen[p[i]], seen[p[j]]) = 0
                           /\ p[i] < p[j]

\* newResponse's sort.Slice on the slice a toResponse call holds only m.lock's
\* read lock for: the swaps follow the comparisons made on the elements seen,
\* and move the elements that are in the slice when they are made.  With no
\* other call in between, the slice is the one newResponse makes; the call
\* sorts the slice it was given, whatever slice the collector holds by then.
sortSlice(annotations, seen) ==
    IF seen = annotations THEN newResponse(annotations).annotations
    ELSE IF Len(seen) = Len(annotations)
    THEN [k \in 1..Len(annotations) |-> annotations[sortOrder(seen)[k]]]
    ELSE newResponse(seen).annotations

\* slices.Clone(s): the elements of s in an array of its own
slicesClone(s) == [array |-> "clone", elems |-> s]

\* response.Annotations(): a clone of r.annotations, the slice the Response
\* shares with the collector
responseAnnotations(r) == slicesClone(r.annotations)

\* toResponse run without interruption: the collector after and the result
toResponse(m) ==
    LET early == toResponseCheck(m)
    IN  IF early.done THEN [m |-> m, result |-> early]
        ELSE LET after == toResponseWrite(m)
             IN  [m |-> after, result |-> ResponseResult(after.annotations)]

(***************************************************************************)
(* Options and the Request.                                                *)
(***************************************************************************)
checkRuleIDPageSize == 250

errOptionKeyEmpty == "option key is empty"
errOptionValueEmpty == "option value is empty"
errUnknownRuleID == "unknown rule ID"
errUnknownPageToken == "unknown page token"
errDuplicateRuleIDs == "duplicate rule IDs"

\* Options: a map from key to value, here a function on the set of its keys
validateKeyToValue(keyToValue) ==
    IF \E k \in DOMAIN keyToValue : k = "" THEN errOptionKeyEmpty
    ELSE IF \E k \in DOMAIN keyToValue : keyToValue[k] = ""
    THEN errOptionValueEmpty
    ELSE Nil

newOptions(keyToValue) ==
    [options |-> keyToValue, err |-> validateKeyToValue(keyToValue)]

\* options.toProto: one Option per key, in the order the map is ranged over
RECURSIVE optionsToProto(_)
optionsToProto(keyToValue) ==
    IF DOMAIN keyToValue = {} THEN <<>>
    ELSE LET k == CHOOSE x \in DOMAIN keyToValue : TRUE
             rest == [x \in DOMAIN keyToValue \ {k} |-> keyToValue[x]]
         IN  <<[key |-> k, value |-> keyToValue[k]]>> \o optionsToProto(rest)

\* the rule IDs of the model, "" included, in the order of their strings
RuleIDOrder ==
    [i \in 1..(MaxChunks * checkRuleIDPageSize + MaxRuleID + 1002) |-> i - 1]

\* sort.Strings on the keys of a map of rule IDs: the IDs in ascending order
sortStrings(ids) ==
    LET Member(id) == id \in ids
    IN  SelectSeq(RuleIDOrder, Member)

SeqToSet(s) == {s[i] : i \in 1..Len(s)}

newRequestOptions == [againstFiles |-> <<>>, keyToValue |-> <<>>, ruleIDMap |-> {}]

WithAgainstFiles(ro, againstFiles) == [ro EXCEPT !.againstFiles = againstFiles]

\* requestOptions.keyToValue[key] = value
WithOption(ro, key, value) ==
    [ro EXCEPT !.keyToValue =
        [k \in DOMAIN @ \cup {key} |-> IF k = key THEN value ELSE @[k]]]

\* WithOptions(options): the Options of another Request
WithOptions(ro, options) == [ro EXCEPT !.keyToValue = options]

\* requestOptions.ruleIDMap[ruleID] = struct{}{} for each of the ruleIDs
WithRuleIDs(ro, ruleIDs) == [ro EXCEPT !.ruleIDMap = @ \cup SeqToSet(ruleIDs)]

NilRequest == [files |-> <<>>, againstFiles |-> <<>>, options |-> <<>>, ruleIDs |-> <<>>]

\* newRequest(files, options...) with the options already applied to ro
newRequest(files, ro) ==
    LET o == newOptions(ro.keyToValue)
    IN  IF o.err # Nil THEN [request |-> NilRequest, err |-> o.err]
        ELSE [request |-> [files |-> files,
                           againstFiles |-> ro.againstFiles,
                           options |-> o.options,
                           ruleIDs |-> sortStrings(ro.ruleIDMap)],
              err |-> Nil]

\* File.toProto
fileToProto(f) == [fileDescriptorProto |-> [name |-> f.name], isImport |-> f.isImport]

Map(s, F(_)) == [i \in 1..Len(s) |-> F(s[i])]

\* FilesForProtoFiles: an error when two proto files share a name.  The
\* order RangeFiles yields the Files in is unspecified; nothing in the model
\* reads the order of a provider's Files.
FilesForProtoFiles(protoFiles) ==
    IF \E i, j \in 1..Len(protoFiles) :
           i # j /\ protoFiles[i].fileDescriptorProto.name
                        = protoFiles[j].fileDescriptorProto.name
    THEN [files |-> <<>>, err |-> errDuplicateFileName]
    ELSE [files |-> [i \in 1..Len(protoFiles) |->
                        [name |-> protoFiles[i].fileDescriptorProto.name,
                         isImport |-> protoFiles[i].isImport]],
          err |-> Nil]

RECURSIVE withProtoOptions(_, _)
withProtoOptions(ro, protoOptions) ==
    IF protoOptions = <<>> THEN ro
    ELSE withProtoOptions(
             WithOption(ro, Head(protoOptions).key, Head(protoOptions).value),
             Tail(protoOptions))

RequestForProtoRequest(protoRequest) ==
    LET f == FilesForProtoFiles(protoRequest.files)
        a == FilesForProtoFiles(protoRequest.againstFiles)
    IN  IF f.err # Nil THEN [request |-> NilRequest, err |-> f.err]
        ELSE IF a.err # Nil THEN [request |-> NilRequest, err |-> a.err]
        ELSE newRequest(
                 f.files,
                 withProtoOptions(
                     WithRuleIDs(WithAgainstFiles(newRequestOptions, a.files),
                                 protoRequest.ruleIds),
                     protoRequest.options))

\* a faulty variant of chunkEnd: a full chunk ends one rule ID early
chunkEndShort(start, n) ==
    IF start + checkRuleIDPageSize > n THEN n ELSE start + checkRuleIDPageSize - 1

\* the end (exclusive, 0-based) of the chunk of r.ruleIDs that starts at start
chunkEnd(start, n) ==
    IF start + checkRuleIDPageSize > n THEN n ELSE start + checkRuleIDPageSize

\* the loop of toProtos from i = start on
RECURSIVE toProtosFrom(_, _, _, _, _)
toProtosFrom(ruleIDs, protoFiles, protoAgainstFiles, protoOptions, start) ==
    IF ~(start < Len(ruleIDs)) THEN <<>>
    ELSE <<[files |-> protoFiles,
            againstFiles |-> protoAgainstFiles,
            options |-> protoOptions,
            ruleIds |-> SubSeq(ruleIDs, start + 1,
                               chunkEnd(start, Len(ruleIDs)))]>>
         \o toProtosFrom(ruleIDs, protoFiles, protoAgainstFiles, protoOptions,
                         start + checkRuleIDPageSize)

\* a faulty variant of toProtos: only the first chunk is sent
toProtosFirstChunk(r) ==
    <<[files |-> Map(r.files, fileToProto),
       againstFiles |-> Map(r.againstFiles, fileToProto),
       options |-> optionsToProto(r.options),
       ruleIds |-> SubSeq(r.ruleIDs, 1, chunkEnd(0, Len(r.ruleIDs)))]>>

\* toProtos of a transport that does not chunk: one CheckRequest with all
\* the rule IDs
toProtoUnchunked(r) ==
    [files |-> Map(r.files, fileToProto),
     againstFiles |-> Map(r.againstFiles, fileToProto),
     options |-> optionsToProto(r.options),
     ruleIds |-> r.ruleIDs]

\* request.toProtos: the CheckRequests a Request is sent as
toProtos(r) ==
    LET protoFiles == Map(r.files, fileToProto)
        protoAgainstFiles == Map(r.againstFiles, fileToProto)
        protoOptions == optionsToProto(r.options)
    IN  IF Len(r.ruleIDs) = 0
        THEN <<[files |-> protoFiles,
                againstFiles |-> protoAgainstFiles,
                options |-> protoOptions,
                ruleIds |-> <<>>]>>
        ELSE toProtosFrom(r.ruleIDs, protoFiles, protoAgainstFiles,
                          protoOptions, 0)

(***************************************************************************)
(* The provider: checkServiceHandler.                                      *)
(***************************************************************************)
defaultPageSize == 250
listRulesPageSize == 250

InvalidArgument(msg) == [kind |-> "invalidArgument", errs |-> <<msg>>]

\* Annotation.toProto; Location.toProto gives nil for a nil Location
locationToProto(l) ==
    IF ~l.present THEN NilLocation
    ELSE [present |-> TRUE, fileName |-> l.fileName, sourcePath |-> l.sourcePath]

annotationToProto(a) ==
    [ruleId |-> a.ruleID, message |-> a.message,
     location |-> locationToProto(a.location),
     againstLocation |-> locationToProto(a.againstLocation)]

\* A RuleSpec is [ID, Handler]; a Handler is the list of the AddAnnotation
\* calls it makes on its ResponseWriter (adds) and the error it returns (err).
validateRuleSpec(ruleSpec) ==
    IF ruleSpec.ID = 0 THEN "RuleSpec.ID is empty" ELSE Nil

\* unavailable is not a field of the checkServiceHandler: it says of the
\* pluginrpc.Client that reaches the handler that its calls return an error
NilCheckServiceHandler ==
    [ruleSpecs |-> <<>>, ruleIDToRuleSpec |-> <<>>, ruleIDToIndex |-> <<>>,
     categorySpecs |-> <<>>, categoryIDToIndex |-> <<>>, unavailable |-> FALSE]

\* (*checkServiceHandler, error): ruleIDToIndex holds 0-based indexes; the
\* handler of a list of RuleSpecs has no categories
newCheckServiceHandler(ruleSpecs) ==
    LET ids == {ruleSpecs[i].ID : i \in 1..Len(ruleSpecs)}
    IN  IF \E i \in 1..Len(ruleSpecs) : validateRuleSpec(ruleSpecs[i]) # Nil
        THEN [c |-> NilCheckServiceHandler, err |-> "RuleSpec.ID is empty"]
        ELSE IF Cardinality(ids) # Len(ruleSpecs)
        THEN [c |-> NilCheckServiceHandler, err |-> "duplicate Rule ID"]
        ELSE [c |-> [ruleSpecs |-> ruleSpecs,
                     ruleIDToRuleSpec |->
                         [id \in ids |->
                             ruleSpecs[CHOOSE i \in 1..Len(ruleSpecs) :
                                           ruleSpecs[i].ID = id]],
                     ruleIDToIndex |->
                         [id \in ids |->
                             (CHOOSE i \in 1..Len(ruleSpecs) :
                                  ruleSpecs[i].ID = id) - 1],
                     categorySpecs |-> <<>>,
                     categoryIDToIndex |-> <<>>,
                     unavailable |-> FALSE],
              err |-> Nil]

\* the checkServiceHandler of a validated Spec: that of its RuleSpecs, with
\* the CategorySpecs and the 0-based index of each category ID
newCheckServiceHandlerForSpec(spec) ==
    [newCheckServiceHandler(spec.Rules).c EXCEPT
        !.categorySpecs = spec.Categories,
        !.categoryIDToIndex =
            [id \in {spec.Categories[i].ID : i \in 1..Len(spec.Categories)} |->
                (CHOOSE i \in 1..Len(spec.Categories) :
                     spec.Categories[i].ID = id) - 1]]

\* the AddAnnotation calls of a handler on the ResponseWriter with the id
RECURSIVE handlerAdds(_, _, _)
handlerAdds(mw, id, adds) ==
    IF adds = <<>> THEN mw
    ELSE handlerAdds(addAnnotation(mw, id, Head(adds)), id, Tail(adds))

\* a faulty variant of Handle: the error of the handler is dropped
HandleErrorDropped(handler, mw, id) ==
    [m |-> handlerAdds(mw, id, handler.adds), err |-> Nil]

\* ruleSpec.Handler(options).Handle(ctx, responseWriter, request): the
\* collector after the handler's calls, and the error the handler returns
Handle(handler, mw, id) ==
    [m |-> handlerAdds(mw, id, handler.adds), err |-> handler.err]

\* a faulty variant of handlerWriterID: every handler gets the first rule's writer
handlerWriterIDFirst(ruleSpecs, i) == ruleSpecs[1].ID

\* multiResponseWriter.newResponseWriter(ruleSpec.ID): the rule ID of the
\* ResponseWriter that the handler of ruleSpecs[i] is given
handlerWriterID(ruleSpecs, i) == ruleSpecs[i].ID

\* one round of the loop over the selected ruleSpecs: the handler of
\* ruleSpecs[i] has returned h
runHandled(run, id, h) ==
    [m |-> h.m, err |-> h.err, invoked |-> Append(run.invoked, id)]

\* the rounds lo..hi of the loop, which ends at the first error; the range
\* is halved so that a long loop does not nest deeply
RECURSIVE runHandlersRange(_, _, _, _)
runHandlersRange(ruleSpecs, run, lo, hi) ==
    IF lo > hi \/ run.err # Nil THEN run
    ELSE IF lo = hi
    THEN runHandled(run, ruleSpecs[lo].ID,
                    Handle(ruleSpecs[lo].Handler, run.m,
                           handlerWriterID(ruleSpecs, lo)))
    ELSE runHandlersRange(ruleSpecs,
                          runHandlersRange(ruleSpecs, run, lo, (lo + hi) \div 2),
                          ((lo + hi) \div 2) + 1, hi)

\* the loop over the selected ruleSpecs from index i on
runHandlers(ruleSpecs, mw, i, invoked) ==
    runHandlersRange(ruleSpecs, [m |-> mw, err |-> Nil, invoked |-> invoked],
                     i, Len(ruleSpecs))

\* a faulty variant of selectRuleSpecs: an unknown rule ID is passed over
selectRuleSpecsSkipUnknown(c, ruleIDs) ==
    LET Known(id) == id \in DOMAIN c.ruleIDToRuleSpec
        known == SelectSeq(ruleIDs, Known)
    IN  [ruleSpecs |-> [i \in 1..Len(known) |-> c.ruleIDToRuleSpec[known[i]]],
         err |-> Nil]

\* a faulty variant of selectRuleSpecs: the rule IDs are not looked at
selectRuleSpecsAll(c, ruleIDs) == [ruleSpecs |-> c.ruleSpecs, err |-> Nil]

\* the RuleSpecs of the request's rule IDs, in the order of the rule IDs
selectRuleSpecs(c, ruleIDs) ==
    IF \E i \in 1..Len(ruleIDs) : ruleIDs[i] \notin DOMAIN c.ruleIDToRuleSpec
    THEN [ruleSpecs |-> <<>>, err |-> errUnknownRuleID]
    ELSE [ruleSpecs |-> [i \in 1..Len(ruleIDs) |-> c.ruleIDToRuleSpec[ruleIDs[i]]],
          err |-> Nil]

CheckFailed(err, invoked) ==
    [ok |-> FALSE, annotations |-> <<>>, proto |-> <<>>, err |-> err,
     invoked |-> invoked]

\* checkServiceHandler.Check after the handlers ran: toResponse, and the
\* CheckResponse of its Response
checkResponded(result, invoked) ==
    IF ~result.ok THEN CheckFailed(result.err, invoked)
    ELSE [ok |-> TRUE,
          annotations |-> result.annotations,
          proto |-> Map(result.annotations, annotationToProto),
          err |-> NoError,
          invoked |-> invoked]

checkHandled(run) ==
    IF run.err # Nil THEN CheckFailed(PlainError(run.err), run.invoked)
    ELSE checkResponded(toResponse(run.m).result, run.invoked)

\* checkServiceHandler.Check from newMultiResponseWriter on
checkWritten(ruleSpecs, w) ==
    IF w.err # Nil THEN CheckFailed(PlainError(w.err), <<>>)
    ELSE checkHandled(runHandlers(ruleSpecs, w.m, 1, <<>>))

\* checkServiceHandler.Check once the RuleSpecs are selected
checkSelected(request, sel) ==
    IF sel.err # Nil THEN CheckFailed(InvalidArgument(sel.err), <<>>)
    ELSE checkWritten(sel.ruleSpecs, newMultiResponseWriter(request))

\* checkServiceHandler.Check once the Request is read
checkRequested(c, r) ==
    IF r.err # Nil THEN CheckFailed(PlainError(r.err), <<>>)
    ELSE checkSelected(r.request,
                       IF Len(r.request.ruleIDs) > 0
                       THEN selectRuleSpecs(c, r.request.ruleIDs)
                       ELSE [ruleSpecs |-> c.ruleSpecs, err |-> Nil])

\* checkServiceHandler.Check: the Response (annotations), the CheckResponse
\* sent back (proto), the error, and the rules whose handlers were invoked
checkServiceHandlerCheck(c, checkRequest) ==
    checkRequested(c, RequestForProtoRequest(checkRequest))

Min(a, b) == IF a < b THEN a ELSE b

\* a faulty variant of getRuleSpecsAndNextPageToken: an unknown page token
\* is read as the empty one
getRuleSpecsUnknownTokenFromStart(c, pageSize, pageToken) ==
    LET known == pageToken = 0 \/ pageToken \in DOMAIN c.ruleIDToIndex
        index == IF pageToken # 0 /\ known THEN c.ruleIDToIndex[pageToken] ELSE 0
        size == IF pageSize = 0 THEN defaultPageSize ELSE pageSize
        last == index + Min(size, Len(c.ruleSpecs) - index)
    IN  [ruleSpecs |-> SubSeq(c.ruleSpecs, index + 1, last),
         nextPageToken |-> IF last < Len(c.ruleSpecs)
                           THEN c.ruleSpecs[last + 1].ID ELSE 0,
         err |-> NoError]

\* a faulty variant of getRuleSpecsAndNextPageToken: the next page token is
\* the ID of the second rule after the run
getRuleSpecsNextTokenSkipsOne(c, pageSize, pageToken) ==
    LET known == pageToken = 0 \/ pageToken \in DOMAIN c.ruleIDToIndex
        index == IF pageToken # 0 /\ known THEN c.ruleIDToIndex[pageToken] ELSE 0
        size == IF pageSize = 0 THEN defaultPageSize ELSE pageSize
        last == index + Min(size, Len(c.ruleSpecs) - index)
    IN  IF ~known
        THEN [ruleSpecs |-> <<>>, nextPageToken |-> 0,
              err |-> InvalidArgument(errUnknownPageToken)]
        ELSE [ruleSpecs |-> SubSeq(c.ruleSpecs, index + 1, last),
              nextPageToken |-> IF last + 1 < Len(c.ruleSpecs)
                                THEN c.ruleSpecs[last + 2].ID ELSE 0,
              err |-> NoError]

\* a faulty variant of getRuleSpecsAndNextPageToken: a page holds one rule
\* less than the page size
getRuleSpecsOneShortOfPageSize(c, pageSize, pageToken) ==
    LET known == pageToken = 0 \/ pageToken \in DOMAIN c.ruleIDToIndex
        index == IF pageToken # 0 /\ known THEN c.ruleIDToIndex[pageToken] ELSE 0
        size == IF pageSize = 0 THEN defaultPageSize ELSE pageSize
        count == IF size < 2 THEN size ELSE Min(size - 1, Len(c.ruleSpecs) - index)
        last == index + count
    IN  IF ~known
        THEN [ruleSpecs |-> <<>>, nextPageToken |-> 0,
              err |-> InvalidArgument(errUnknownPageToken)]
        ELSE [ruleSpecs |-> SubSeq(c.ruleSpecs, index + 1, last),
              nextPageToken |-> IF last < Len(c.ruleSpecs)
                                THEN c.ruleSpecs[last + 1].ID ELSE 0,
              err |-> NoError]

\* getRuleSpecsAndNextPageToken; page token 0 is the empty token
getRuleSpecsAndNextPageToken(c, pageSize, pageToken) ==
    LET known == pageToken = 0 \/ pageToken \in DOMAIN c.ruleIDToIndex
        index == IF pageToken # 0 /\ known THEN c.ruleIDToIndex[pageToken] ELSE 0
        size == IF pageSize = 0 THEN defaultPageSize ELSE pageSize
        count == IF size < 0 THEN 0 ELSE Min(size, Len(c.ruleSpecs) - index)
        last == index + count
    IN  IF ~known
        THEN [ruleSpecs |-> <<>>, nextPageToken |-> 0,
              err |-> InvalidArgument(errUnknownPageToken)]
        ELSE [ruleSpecs |-> SubSeq(c.ruleSpecs, index + 1, last),
              nextPageToken |-> IF last < Len(c.ruleSpecs)
                                THEN c.ruleSpecs[last + 1].ID ELSE 0,
              err |-> NoError]

\* A Category is [ID]; a Rule is [ID, Categories], with Categories a list of
\* Category values.
categorySpecToCategory(categorySpec) == [ID |-> categorySpec.ID]

CategoryID(category) == category.ID

NilRule == [ID |-> 0, Categories |-> <<>>]

newRule(id, categories) == [ID |-> id, Categories |-> categories]

\* the Category of every category ID of the handler
idToCategoryOf(c) ==
    [id \in DOMAIN c.categoryIDToIndex |->
        categorySpecToCategory(c.categorySpecs[c.categoryIDToIndex[id] + 1])]

errNoCategoryForID == "no category for id"

\* ruleSpecToRule: (Rule, error)
ruleSpecToRule(ruleSpec, idToCategory) ==
    IF \E i \in 1..Len(ruleSpec.CategoryIDs) :
           ruleSpec.CategoryIDs[i] \notin DOMAIN idToCategory
    THEN [rule |-> NilRule, err |-> errNoCategoryForID]
    ELSE [rule |-> newRule(ruleSpec.ID,
                           [i \in 1..Len(ruleSpec.CategoryIDs) |->
                               idToCategory[ruleSpec.CategoryIDs[i]]]),
          err |-> Nil]

\* rule.toProto
ruleToProto(r) == [id |-> r.ID, categoryIds |-> Map(r.Categories, CategoryID)]

\* Category.toProto
categoryToProto(category) == [id |-> category.ID]

\* the Rules of the RuleSpecs of a page, as the ListRulesResponse holds them
pageToProtoRules(ruleSpecs, idToCategory) ==
    [i \in 1..Len(ruleSpecs) |->
        ruleToProto(ruleSpecToRule(ruleSpecs[i], idToCategory).rule)]

\* checkServiceHandler.ListRules
checkServiceHandlerListRules(c, listRulesRequest) ==
    LET p == getRuleSpecsAndNextPageToken(c, listRulesRequest.pageSize,
                                          listRulesRequest.pageToken)
    IN  [rules |-> pageToProtoRules(p.ruleSpecs, idToCategoryOf(c)),
         nextPageToken |-> p.nextPageToken,
         err |-> p.err]

categorySpecToProtoCategory(categorySpec) ==
    categoryToProto(categorySpecToCategory(categorySpec))

\* checkServiceHandler.ListCategories: the cursor protocol of ListRules over
\* the CategorySpecs
checkServiceHandlerListCategories(c, listCategoriesRequest) ==
    LET p == getRuleSpecsAndNextPageToken(
                 [ruleSpecs |-> c.categorySpecs,
                  ruleIDToIndex |-> c.categoryIDToIndex],
                 listCategoriesRequest.pageSize,
                 listCategoriesRequest.pageToken)
    IN  [categories |-> Map(p.ruleSpecs, categorySpecToProtoCategory),
         nextPageToken |-> p.nextPageToken,
         err |-> p.err]

(***************************************************************************)
(* The Client on one provider.                                             *)
(***************************************************************************)
\* a Client made by NewClientForSpec calls its provider c directly

\* the addAnnotation call Client.Check makes for a proto annotation
protoAnnotationOptions(pa) ==
    WithAgainstSourcePath(
        WithAgainstFileName(
            WithSourcePath(
                WithFileName(
                    WithMessage(newAddAnnotationOptions, pa.message),
                    pa.location.fileName),
                pa.location.sourcePath),
            pa.againstLocation.fileName),
        pa.againstLocation.sourcePath)

\* the error of a call on a pluginrpc.Client whose plugin cannot be reached,
\* or whose context is cancelled
errPluginUnavailable == "plugin unavailable"

\* checkServiceClient.Check(ctx, protoRequest)
rpcCheck(c, protoRequest) ==
    IF c.unavailable THEN CheckFailed(PlainError(errPluginUnavailable), <<>>)
    ELSE checkServiceHandlerCheck(c, protoRequest)

\* checkServiceClient.ListRules(ctx, listRulesRequest)
rpcListRules(c, listRulesRequest) ==
    IF c.unavailable
    THEN [rules |-> <<>>, nextPageToken |-> 0,
          err |-> PlainError(errPluginUnavailable)]
    ELSE checkServiceHandlerListRules(c, listRulesRequest)

\* checkServiceClient.ListCategories(ctx, listCategoriesRequest)
rpcListCategories(c, listCategoriesRequest) ==
    IF c.unavailable
    THEN [categories |-> <<>>, nextPageToken |-> 0,
          err |-> PlainError(errPluginUnavailable)]
    ELSE checkServiceHandlerListCategories(c, listCategoriesRequest)

RECURSIVE addProtoAnnotations(_, _)
addProtoAnnotations(mw, protoAnnotations) ==
    IF protoAnnotations = <<>> THEN mw
    ELSE addProtoAnnotations(
             addAnnotation(mw, Head(protoAnnotations).ruleId,
                           protoAnnotationOptions(Head(protoAnnotations))),
             Tail(protoAnnotations))

\* the loop of client.Check over the protoRequests from index i on, and
\* what it does with the CheckResponse res of protoRequests[i]
RECURSIVE clientCheckLoop(_, _, _, _, _)
RECURSIVE clientCheckResponse(_, _, _, _, _, _)
clientCheckResponse(c, protoRequests, mw, i, invoked, res) ==
    IF ~res.ok
    THEN [m |-> mw, err |-> res.err, sent |-> i,
          invoked |-> invoked \o res.invoked]
    ELSE clientCheckLoop(c, protoRequests, addProtoAnnotations(mw, res.proto),
                         i + 1, invoked \o res.invoked)

clientCheckLoop(c, protoRequests, mw, i, invoked) ==
    IF i > Len(protoRequests)
    THEN [m |-> mw, err |-> NoError, sent |-> i - 1, invoked |-> invoked]
    ELSE clientCheckResponse(c, protoRequests, mw, i, invoked,
                             rpcCheck(c, protoRequests[i]))

\* client.Check after the loop: toResponse
clientCheckLooped(protoRequests, loop) ==
    IF loop.err # NoError
    THEN [result |-> ErrorResult(loop.err),
          sent |-> SubSeq(protoRequests, 1, loop.sent),
          invoked |-> loop.invoked]
    ELSE [result |-> toResponse(loop.m).result,
          sent |-> protoRequests,
          invoked |-> loop.invoked]

\* client.Check from newMultiResponseWriter on
clientCheckWritten(c, protoRequests, w) ==
    IF w.err # Nil
    THEN [result |-> ErrorResult(PlainError(w.err)), sent |-> <<>>,
          invoked |-> <<>>]
    ELSE clientCheckLooped(protoRequests,
                           clientCheckLoop(c, protoRequests, w.m, 1, <<>>))

\* client.Check: the result, the CheckRequests sent, the handlers invoked
clientCheck(c, req) ==
    clientCheckWritten(c, toProtos(req), newMultiResponseWriter(req))

\* a faulty variant of ruleForProtoRule: the category IDs are not resolved
ruleForProtoRuleNoCategories(protoRule, idToCategory) ==
    [rule |-> newRule(protoRule.id, <<>>), err |-> Nil]

\* ruleForProtoRule: (Rule, error)
ruleForProtoRule(protoRule, idToCategory) ==
    IF \E i \in 1..Len(protoRule.categoryIds) :
           protoRule.categoryIds[i] \notin DOMAIN idToCategory
    THEN [rule |-> NilRule, err |-> errNoCategoryForID]
    ELSE [rule |-> newRule(protoRule.id,
                           [i \in 1..Len(protoRule.categoryIds) |->
                               idToCategory[protoRule.categoryIds[i]]]),
          err |-> Nil]

\* CompareRules: by rule ID
compareRules(one, two) == intCompare(one.ID, two.ID)

RuleID(rule) == rule.ID

\* the rule with the id among rules
ruleWithID(rules, id) == rules[CHOOSE i \in 1..Len(rules) : rules[i].ID = id]

\* the rules at the positions that the sorted rule IDs give them
sortRulesBy(rules, ids) == [k \in 1..Len(rules) |-> ruleWithID(rules, ids[k])]

\* a faulty variant of sortRules: the rules stay as they were listed
sortRulesNot(rules) == rules

\* sort.Slice by CompareRules, which orders by rule ID.  Both callers
\* validate that no two of the rules share an ID before they sort, so the
\* result is the rules in the order of their IDs.
sortRules(rules) == sortRulesBy(rules, sortStrings(SeqToSet(Map(rules, RuleID))))

\* idToCount has an ID counted twice exactly when there are fewer IDs than
\* entries
validateNoDuplicateRuleIDs(ids) ==
    IF Cardinality(SeqToSet(ids)) # Len(ids) THEN errDuplicateRuleIDs ELSE Nil

validateNoDuplicateRules(rules) == validateNoDuplicateRuleIDs(Map(rules, RuleID))

listCategoriesPageSize == 250

\* categoryForProtoCategory
categoryForProtoCategory(protoCategory) == [ID |-> protoCategory.id]

errDuplicateCategoryIDs == "duplicate category IDs"

validateNoDuplicateCategories(categories) ==
    IF Cardinality(SeqToSet(Map(categories, CategoryID))) # Len(categories)
    THEN errDuplicateCategoryIDs ELSE Nil

\* sortCategories, by category ID; the caller has validated that no two of
\* the categories share an ID
sortCategories(categories) ==
    sortRulesBy(categories, sortStrings(SeqToSet(Map(categories, CategoryID))))

\* the paging loop of listCategoriesUncached from pageToken on, and what it
\* does with the ListCategoriesResponse of the page
RECURSIVE listCategoriesPages(_, _, _, _)
RECURSIVE listCategoriesPaged(_, _, _, _)
listCategoriesPaged(c, protoCategories, n, response) ==
    IF response.err # NoError
    THEN [protoCategories |-> <<>>, err |-> response.err, calls |-> n + 1]
    ELSE IF response.nextPageToken = 0
    THEN [protoCategories |-> protoCategories \o response.categories,
          err |-> NoError, calls |-> n + 1]
    ELSE listCategoriesPages(c, response.nextPageToken,
                             protoCategories \o response.categories, n + 1)

listCategoriesPages(c, pageToken, protoCategories, n) ==
    listCategoriesPaged(c, protoCategories, n,
                        rpcListCategories(
                            c, [pageSize |-> listCategoriesPageSize,
                                pageToken |-> pageToken]))

\* listCategoriesUncached after the paging loop
listCategoriesValidated(categories, n) ==
    IF validateNoDuplicateCategories(categories) # Nil
    THEN [categories |-> <<>>,
          err |-> PlainError(validateNoDuplicateCategories(categories)),
          calls |-> n]
    ELSE [categories |-> sortCategories(categories), err |-> NoError,
          calls |-> n]

listCategoriesListed(pages) ==
    IF pages.err # NoError
    THEN [categories |-> <<>>, err |-> pages.err, calls |-> pages.calls]
    ELSE listCategoriesValidated(
             Map(pages.protoCategories, categoryForProtoCategory), pages.calls)

\* client.listCategoriesUncached: (categories, error) and the provider
\* calls made
listCategoriesUncached(c) ==
    listCategoriesListed(listCategoriesPages(c, 0, <<>>, 0))

\* the paging loop of listRulesUncached from pageToken on, and what it does
\* with the ListRulesResponse of the page
RECURSIVE listRulesPages(_, _, _, _)
RECURSIVE listRulesPaged(_, _, _, _)
listRulesPaged(c, protoRules, n, response) ==
    IF response.err # NoError
    THEN [protoRules |-> <<>>, err |-> response.err, calls |-> n + 1]
    ELSE IF response.nextPageToken = 0
    THEN [protoRules |-> protoRules \o response.rules, err |-> NoError,
          calls |-> n + 1]
    ELSE listRulesPages(c, response.nextPageToken,
                        protoRules \o response.rules, n + 1)

listRulesPages(c, pageToken, protoRules, n) ==
    listRulesPaged(c, protoRules, n,
                   rpcListRules(
                       c, [pageSize |-> listRulesPageSize,
                           pageToken |-> pageToken]))

\* listRulesUncached once the Rules are made
listRulesValidated(rules, n) ==
    IF validateNoDuplicateRules(rules) # Nil
    THEN [rules |-> <<>>, err |-> PlainError(validateNoDuplicateRules(rules)),
          calls |-> n]
    ELSE [rules |-> sortRules(rules), err |-> NoError, calls |-> n]

\* categoryIDToCategory of listRulesUncached
categoryIDToCategoryOf(categories) ==
    [id \in SeqToSet(Map(categories, CategoryID)) |->
        ruleWithID(categories, id)]

\* listRulesUncached from the categories on: the Rules of the protoRules
listRulesMapped(protoRules, categoryIDToCategory, n) ==
    IF \E i \in 1..Len(protoRules) :
           ruleForProtoRule(protoRules[i], categoryIDToCategory).err # Nil
    THEN [rules |-> <<>>, err |-> PlainError(errNoCategoryForID), calls |-> n]
    ELSE listRulesValidated(
             [i \in 1..Len(protoRules) |->
                 ruleForProtoRule(protoRules[i], categoryIDToCategory).rule], n)

\* listRulesUncached after the paging loop: what ListCategories returned
listRulesListed(pages, listed) ==
    IF pages.err # NoError
    THEN [rules |-> <<>>, err |-> pages.err, calls |-> pages.calls]
    ELSE IF listed.err # NoError
    THEN [rules |-> <<>>, err |-> listed.err, calls |-> pages.calls]
    ELSE listRulesMapped(pages.protoRules,
                         categoryIDToCategoryOf(listed.categories), pages.calls)

\* client.ListRules without the cache: (rules, error) and the ListRules
\* calls the provider received
clientListRules(c) ==
    listRulesListed(listRulesPages(c, 0, <<>>, 0), listCategoriesUncached(c))

(***************************************************************************)
(* The MultiClient.                                                        *)
(***************************************************************************)
\* the loop of getRulesAndChunkedRuleIDs over the delegates from index i on,
\* and what it does with what delegate i's ListRules returned
RECURSIVE listDelegates(_, _, _, _)
RECURSIVE listDelegated(_, _, _, _, _)
\* a faulty variant of listDelegated: the loop goes on after a delegate
\* whose ListRules failed
listDelegatedGoesOn(cs, i, rules, chunkedRuleIDs, l) ==
    listDelegates(cs, i + 1, rules \o l.rules,
                  Append(chunkedRuleIDs, Map(l.rules, RuleID)))

listDelegated(cs, i, rules, chunkedRuleIDs, l) ==
    IF l.err # NoError
    THEN [rules |-> <<>>, chunkedRuleIDs |-> <<>>, err |-> l.err, listed |-> i]
    ELSE listDelegates(cs, i + 1, rules \o l.rules,
                       Append(chunkedRuleIDs, Map(l.rules, RuleID)))

listDelegates(cs, i, rules, chunkedRuleIDs) ==
    IF i > Len(cs)
    THEN [rules |-> rules, chunkedRuleIDs |-> chunkedRuleIDs, err |-> NoError,
          listed |-> i - 1]
    ELSE listDelegated(cs, i, rules, chunkedRuleIDs, clientListRules(cs[i]))

\* a faulty variant of rulesAndChunkedRuleIDs: the rules are returned as the
\* delegates listed them
rulesAndChunkedRuleIDsAsListed(l) == l

\* a faulty variant of rulesAndChunkedRuleIDs: the rules are validated and
\* not sorted
rulesAndChunkedRuleIDsUnsorted(l) ==
    IF l.err # NoError THEN l
    ELSE IF validateNoDuplicateRules(l.rules) # Nil
    THEN [rules |-> <<>>, chunkedRuleIDs |-> <<>>,
          err |-> PlainError(validateNoDuplicateRules(l.rules)),
          listed |-> l.listed]
    ELSE l

\* getRulesAndChunkedRuleIDs after the loop
rulesAndChunkedRuleIDs(l) ==
    IF l.err # NoError THEN l
    ELSE IF validateNoDuplicateRules(l.rules) # Nil
    THEN [rules |-> <<>>, chunkedRuleIDs |-> <<>>,
          err |-> PlainError(validateNoDuplicateRules(l.rules)),
          listed |-> l.listed]
    ELSE [l EXCEPT !.rules = sortRules(l.rules)]

\* getRulesAndChunkedRuleIDs; listed is the number of delegates it called
getRulesAndChunkedRuleIDs(cs) ==
    rulesAndChunkedRuleIDs(listDelegates(cs, 1, <<>>, <<>>))

\* a faulty variant of requestDelegateRuleIDs: the requested IDs are not narrowed to
\* the delegate's
requestDelegateRuleIDsNotNarrowed(allDelegateRuleIDs, requestRuleIDs) ==
    requestRuleIDs

\* a faulty variant of requestDelegateRuleIDs: the loop stops at the
\* delegate's first requested rule ID
requestDelegateRuleIDsFirstOnly(allDelegateRuleIDs, requestRuleIDs) ==
    LET requestRuleIDMap == SeqToSet(requestRuleIDs)
        Requested(id) == id \in requestRuleIDMap
        requested == SelectSeq(allDelegateRuleIDs, Requested)
    IN  SubSeq(requested, 1, Min(1, Len(requested)))

\* the requested rule IDs that are the delegate's, in the delegate's order;
\* requestRuleIDs is the sequence the requestRuleIDMap is made of
requestDelegateRuleIDs(allDelegateRuleIDs, requestRuleIDs) ==
    LET requestRuleIDMap == SeqToSet(requestRuleIDs)
        Requested(id) == id \in requestRuleIDMap
    IN  SelectSeq(allDelegateRuleIDs, Requested)

(***************************************************************************)
(* SpecCollector: one collector shared by concurrent callers.  Each writer  *)
(* is a goroutine that holds the ResponseWriter of one rule and calls       *)
(* AddAnnotation; each finalizer is a goroutine that calls toResponse.      *)
(***************************************************************************)
Writers == {"w1", "w2"}
Finalizers == {"f1", "f2"}

\* newResponseWriter(collector, id): the rule ID each writer's ResponseWriter holds
responseWriterID == [w \in Writers |-> IF w = "w1" THEN 2 ELSE 1]

\* the Request the collector was made for
CollectorRequest ==
    [files |-> <<[name |-> "a.proto", isImport |-> FALSE],
                 [name |-> "b.proto", isImport |-> TRUE]>>,
     againstFiles |-> <<[name |-> "a.proto", isImport |-> FALSE]>>]

OptMessage == WithMessage(newAddAnnotationOptions, "m")
OptFilePath == WithSourcePath(WithFileName(OptMessage, "a.proto"), <<4, 0>>)
OptDescriptor == WithDescriptor(OptMessage, Descriptor("b.proto", <<4, 1>>))
OptDescriptorAndFile ==
    WithFileName(WithDescriptor(OptMessage, Descriptor("a.proto", <<4, 1>>)),
                 "a.proto")
OptPathOnly == WithSourcePath(OptMessage, <<4, 0>>)
OptUnknownFile == WithFileName(OptMessage, "z.proto")
OptUnknownAgainst ==
    WithAgainstFileName(WithFileName(OptMessage, "a.proto"), "b.proto")

\* the options the concurrent writers choose from
WriterOptions == {OptFilePath, OptDescriptor, OptDescriptorAndFile, OptUnknownFile}

\* a faulty variant of CanLock: Lock is granted whoever holds the lock
CanLockNoExclusion == TRUE

\* sync.RWMutex: Lock is granted when nobody holds the lock
CanLock == lockW = "none" /\ lockR = {}

\* sync.RWMutex: RLock is granted when no writer holds the lock
CanRLock == lockW = "none"

\* What a call with options o asks for, in the words of the contract: the
\* two location styles are exclusive, a path needs a file name, and a file
\* must be one of the request's.
BadCombination(o) ==
    \/ o.descriptor.present /\ (o.fileName # "" \/ o.sourcePath # <<>>)
    \/ o.againstDescriptor.present
        /\ (o.againstFileName # "" \/ o.againstSourcePath # <<>>)
    \/ o.fileName = "" /\ o.sourcePath # <<>>
    \/ o.againstFileName = "" /\ o.againstSourcePath # <<>>

NamedFile(d, fileName) == IF d.present THEN d.file ELSE fileName

FileNamesOf(files) == {files[i].name : i \in 1..Len(files)}

UnknownFile(o, request) ==
    \/ NamedFile(o.descriptor, o.fileName) \notin
           FileNamesOf(request.files) \cup {""}
    \/ NamedFile(o.againstDescriptor, o.againstFileName) \notin
           FileNamesOf(request.againstFiles) \cup {""}

WantedLocation(d, fileName, path) ==
    IF NamedFile(d, fileName) = "" THEN NilLocation
    ELSE [present |-> TRUE, fileName |-> NamedFile(d, fileName),
          sourcePath |-> IF d.present THEN d.path
                         ELSE IF path \in KnownPaths THEN path ELSE <<>>]

WantedAnnotation(ruleID, o) ==
    [ruleID |-> ruleID, message |-> o.message,
     location |-> WantedLocation(o.descriptor, o.fileName, o.sourcePath),
     againstLocation |->
         WantedLocation(o.againstDescriptor, o.againstFileName,
                        o.againstSourcePath)]

SeqToBag(s) ==
    LET elems == {s[i] : i \in 1..Len(s)}
    IN  [e \in elems |-> Cardinality({i \in 1..Len(s) : s[i] = e})]

HistInit ==
    [good |-> <<>>,      \* the annotations the good calls asked for, in call order
     bad |-> 0,          \* the calls with a bad combination or an unknown file
     overlap |-> FALSE,  \* some call began while another writer was in a call
     late |-> FALSE,     \* some AddAnnotation began after a toResponse began
     prior |-> [f \in Finalizers |-> {}],      \* who had returned when f began
     quiet |-> [f \in Finalizers |-> FALSE],   \* no writer in a call when f began
     seen |-> [f \in Finalizers |-> 0],       \* len(collector.errs) when f checked it
     changed |-> [f \in Finalizers |-> FALSE]] \* f's caller changed the slice Annotations() gave

CollectorStart ==
    /\ collector = newMultiResponseWriter(CollectorRequest).m
    /\ lockW = "none"
    /\ lockR = {}
    /\ wpc = [w \in Writers |-> "idle"]
    /\ wopts = [w \in Writers |-> newAddAnnotationOptions]
    /\ wnew = [w \in Writers |-> NilMultiResponseWriter]
    /\ wcount = 0
    /\ fpc = [f \in Finalizers |-> "idle"]
    /\ fresult = [f \in Finalizers |-> Pending]
    /\ fseen = [f \in Finalizers |-> <<>>]
    /\ hist = HistInit

\* Client.ListRules has not returned
NoListing == [rules |-> <<>>, err |-> NoError, calls |-> 0]

\* no Check call is made
McStart ==
    [pc |-> "start", op |-> "none", i |-> 0, allRules |-> <<>>,
     chunkedRuleIDs |-> <<>>, requestRuleIDs |-> <<>>, allAnnotations |-> <<>>]

CheckUnused ==
    /\ clients = <<>>
    /\ callerRequest = NilRequest
    /\ mc = McStart
    /\ cresult = Pending
    /\ lresult = NoListing
    /\ calls = <<>>

\* no Request is built
RequestUnused ==
    /\ rpc = "new"
    /\ given = [files |-> <<>>, againstFiles |-> <<>>, optionValue |-> "none",
                ruleIDs |-> <<>>]
    /\ built = [request |-> NilRequest, err |-> Nil]
    /\ protos = <<>>

\* a ListRulesResponse without rules
NoListRulesResponse == [rules |-> <<>>, nextPageToken |-> 0, err |-> NoError]

\* no rules are listed
PagingUnused ==
    /\ pgProvider = NilCheckServiceHandler
    /\ pgSize = 0
    /\ pgToken = 0
    /\ pgSent = <<>>
    /\ pgResponse = NoListRulesResponse
    /\ pgRules = <<>>
    /\ pgPc = "start"
    /\ pgListing = NoListing

\* a Check that has not returned
NoCheck == [result |-> Pending, sent |-> 0]

\* no chunked Check is made
ChunkedUnused ==
    /\ ckProvider = NilCheckServiceHandler
    /\ ckRequest = NilRequest
    /\ ckChunked = NoCheck
    /\ ckUnchunked = NoCheck

\* the callers of the Client
ListCallers == {1, 2}

\* a sync.RWMutex that nobody holds or waits for: its writer (0: none), its
\* readers, and the caller whose Lock waits for the readers to leave
RWFree == [writer |-> 0, readers |-> {}, pending |-> 0]

\* RLock returns: no writer holds the lock and none waits for it
CanRLockRW(lock) == lock.writer = 0 /\ lock.pending = 0

\* Lock goes on to wait for the readers: no other Lock is under way
CanLockRW(lock) == lock.writer = 0 /\ lock.pending = 0

\* Lock returns to the caller that waits: the readers have left
CanLockedRW(lock, g) == lock.pending = g /\ lock.readers = {}

\* what a listing call returns: rules or categories, and an error
NoListResult == [op |-> "none", rules |-> <<>>, categories |-> <<>>, err |-> NoError]

RulesResult(rules, err) ==
    [op |-> "rules", rules |-> rules, categories |-> <<>>, err |-> err]

CategoriesResult(categories, err) ==
    [op |-> "categories", rules |-> <<>>, categories |-> categories, err |-> err]

\* a caller that is in no call
IdleCaller ==
    [pc |-> "idle", op |-> "none", protoRules |-> <<>>,
     listed |-> NoListResult, result |-> NoListResult]

\* newClient: nothing is cached
newClient(cacheRulesAndCategories) ==
    [cacheRulesAndCategories |-> cacheRulesAndCategories,
     cachedRules |-> <<>>, cachedRulesErr |-> NoError,
     cachedCategories |-> <<>>, cachedCategoriesErr |-> NoError]

\* every call of the provider succeeds
NoFaults == [rules |-> 0, categories |-> 0]

\* no listing call is made
ListingUnused ==
    /\ lsProvider = NilCheckServiceHandler
    /\ lsClient = newClient(FALSE)
    /\ lsRulesLock = RWFree
    /\ lsCategoriesLock = RWFree
    /\ lsCallers = [g \in ListCallers |-> IdleCaller]
    /\ lsCalls = 0
    /\ lsFetches = [rules |-> 0, categories |-> 0]
    /\ lsFaults = NoFaults

\* a Spec without RuleSpecs and CategorySpecs
NilSpec == [Rules |-> <<>>, Categories |-> <<>>]

\* nothing is validated yet: no validator has returned, no provider is made
NotReturned == [type |-> "pending", msg |-> "", ids |-> <<>>]

NotValidated ==
    [pc |-> "given", validateSpec |-> NotReturned,
     validateRuleSpecs |-> NotReturned, validateCategorySpecs |-> NotReturned,
     listed |-> <<>>]

\* no Spec is validated, no Request is constructed from arguments
ValidateUnused ==
    /\ vdSpec = NilSpec
    /\ vdResult = NotValidated
    /\ nrGiven = [files |-> <<>>, againstFiles |-> <<>>, options |-> <<>>,
                  ruleIDs |-> <<>>]
    /\ nrResult = [pc |-> "unused", request |-> NilRequest, err |-> Nil]
    /\ aaOptions = newAddAnnotationOptions
    /\ aaResult = [pc |-> "unused", m |-> NilMultiResponseWriter]

\* the variables of the specifications other than SpecCollector, SpecCheck and
\* SpecRequest are at their initial values
OthersUnused ==
    PagingUnused /\ ChunkedUnused /\ ListingUnused /\ ValidateUnused

InitCollector == CollectorStart /\ CheckUnused /\ RequestUnused /\ OthersUnused

\* AddAnnotation(options...) on writer w's ResponseWriter: the options are
\* applied, and the call goes on to collector.lock.Lock()
AddAnnotationCall(w, o) ==
    /\ wpc[w] = "idle"
    /\ wcount < MaxAdds
    /\ wpc' = [wpc EXCEPT ![w] = "lock"]
    /\ wopts' = [wopts EXCEPT ![w] = o]
    /\ wcount' = wcount + 1
    /\ hist' = [hist EXCEPT
           !.good = IF BadCombination(o) \/ UnknownFile(o, CollectorRequest)
                    THEN @
                    ELSE Append(@, WantedAnnotation(responseWriterID[w], o)),
           !.bad = IF BadCombination(o) \/ UnknownFile(o, CollectorRequest)
                   THEN @ + 1 ELSE @,
           !.overlap = @ \/ \E v \in Writers \ {w} : wpc[v] # "idle",
           !.late = @ \/ \E f \in Finalizers : fpc[f] # "idle"]
    /\ UNCHANGED <<collector, lockW, lockR, wnew, fpc, fresult, fseen>>
    /\ UNCHANGED otherThanCollector

\* collector.lock.Lock() returns
AddAnnotationLock(w) ==
    /\ wpc[w] = "lock"
    /\ CanLock
    /\ lockW' = w
    /\ wpc' = [wpc EXCEPT ![w] = "body"]
    /\ UNCHANGED <<collector, lockR, wopts, wnew, wcount, fpc, fresult, fseen, hist>>
    /\ UNCHANGED otherThanCollector

\* the body of addAnnotation reads the collector and computes its new lists
AddAnnotationBody(w) ==
    /\ wpc[w] = "body"
    /\ wnew' = [wnew EXCEPT ![w] = addAnnotation(collector, responseWriterID[w], wopts[w])]
    /\ wpc' = [wpc EXCEPT ![w] = "store"]
    /\ UNCHANGED <<collector, lockW, lockR, wopts, wcount, fpc, fresult, fseen, hist>>
    /\ UNCHANGED otherThanCollector

\* the body stores the list it appended to, and the deferred Unlock runs
AddAnnotationUnlock(w) ==
    /\ wpc[w] = "store"
    /\ collector' = [collector EXCEPT !.errs = wnew[w].errs,
                      !.annotations = wnew[w].annotations]
    /\ lockW' = IF lockW = w THEN "none" ELSE lockW
    /\ wpc' = [wpc EXCEPT ![w] = "idle"]
    /\ UNCHANGED <<lockR, wopts, wnew, wcount, fpc, fresult, fseen, hist>>
    /\ UNCHANGED otherThanCollector

\* toResponse() is called, and goes on to collector.lock.RLock()
ToResponseCall(f) ==
    /\ fpc[f] = "idle"
    /\ fpc' = [fpc EXCEPT ![f] = "rlock"]
    /\ hist' = [hist EXCEPT
           !.prior[f] = {g \in Finalizers : fpc[g] = "done"},
           !.quiet[f] = \A w \in Writers : wpc[w] = "idle"]
    /\ UNCHANGED <<collector, lockW, lockR, wpc, wopts, wnew, wcount, fresult, fseen>>
    /\ UNCHANGED otherThanCollector

\* collector.lock.RLock() returns
ToResponseRLock(f) ==
    /\ fpc[f] = "rlock"
    /\ CanRLock
    /\ lockR' = lockR \cup {f}
    /\ fpc' = [fpc EXCEPT ![f] = "check"]
    /\ UNCHANGED <<collector, lockW, wpc, wopts, wnew, wcount, fresult, fseen, hist>>
    /\ UNCHANGED otherThanCollector

\* toResponse reads collector.errs and collector.written; on an error it returns, and the
\* deferred RUnlock runs
ToResponseCheck(f) ==
    /\ fpc[f] = "check"
    /\ LET early == toResponseCheck(collector)
       IN  IF early.done
           THEN /\ fresult' = [fresult EXCEPT ![f] = early]
                /\ fpc' = [fpc EXCEPT ![f] = "done"]
                /\ lockR' = lockR \ {f}
           ELSE /\ fpc' = [fpc EXCEPT ![f] = "write"]
                /\ UNCHANGED <<fresult, lockR>>
    /\ hist' = [hist EXCEPT !.seen[f] = Len(collector.errs)]
    /\ UNCHANGED <<collector, lockW, wpc, wopts, wnew, wcount, fseen>>
    /\ UNCHANGED otherThanCollector

\* toResponse sets collector.written and calls newResponse, whose sort.Slice
\* compares the elements of the slice it was given
ToResponseWrite(f) ==
    /\ fpc[f] = "write"
    /\ collector' = [collector EXCEPT !.written = toResponseWrite(collector).written]
    /\ fseen' = [fseen EXCEPT ![f] = collector.annotations]
    /\ fpc' = [fpc EXCEPT ![f] = "sort"]
    /\ UNCHANGED <<lockW, lockR, wpc, wopts, wnew, wcount, fresult, hist>>
    /\ UNCHANGED otherThanCollector

\* sort.Slice swaps the elements in place, newResponse keeps the slice and
\* toResponse returns the Response; the deferred RUnlock runs
ToResponseSort(f) ==
    /\ fpc[f] = "sort"
    /\ collector' = [collector EXCEPT
           !.annotations = sortSlice(collector.annotations, fseen[f])]
    /\ fresult' = [fresult EXCEPT ![f] = ResponseResult(collector'.annotations)]
    /\ fpc' = [fpc EXCEPT ![f] = "done"]
    /\ lockR' = lockR \ {f}
    /\ UNCHANGED <<lockW, wpc, wopts, wnew, wcount, fseen, hist>>
    /\ UNCHANGED otherThanCollector

\* an Annotation without rule, message and locations
NilAnnotation == newAnnotation(0, "", NilLocation, NilLocation)

\* the caller of toResponse overwrites the first element of the slice that
\* Annotations() of the Response returned
ChangeAnnotations(f) ==
    /\ fpc[f] = "done"
    /\ fresult[f].ok
    /\ ~hist.changed[f]
    /\ collector.annotations # <<>>
    /\ LET got == responseAnnotations([annotations |-> collector.annotations])
       IN  collector' =
               IF got.array = "response"
               THEN [collector EXCEPT !.annotations[1] = NilAnnotation]
               ELSE collector
    /\ hist' = [hist EXCEPT !.changed[f] = TRUE]
    /\ UNCHANGED <<lockW, lockR, wpc, wopts, wnew, wcount, fpc, fresult, fseen>>
    /\ UNCHANGED otherThanCollector

NextCollector ==
    \/ \E w \in Writers, o \in WriterOptions : AddAnnotationCall(w, o)
    \/ \E w \in Writers : AddAnnotationLock(w)
    \/ \E w \in Writers : AddAnnotationBody(w)
    \/ \E w \in Writers : AddAnnotationUnlock(w)
    \/ \E f \in Finalizers : ToResponseCall(f)
    \/ \E f \in Finalizers : ToResponseRLock(f)
    \/ \E f \in Finalizers : ToResponseCheck(f)
    \/ \E f \in Finalizers : ToResponseWrite(f)
    \/ \E f \in Finalizers : ToResponseSort(f)
    \/ \E f \in Finalizers : ChangeAnnotations(f)

SpecCollector == InitCollector /\ [][NextCollector]_vars

(***************************************************************************)
(* Properties of the collector under SpecCollector.                        *)
(***************************************************************************)
\* f's toResponse call overlapped no other toResponse call
SoleCall(f) ==
    \A g \in Finalizers \ {f} :
        fpc[g] = "idle" \/ f \in hist.prior[g] \/ g \in hist.prior[f]

\* every AddAnnotation call had returned when f's toResponse was called,
\* and none was made afterwards
AddsFinishedBefore(f) == hist.quiet[f] /\ ~hist.late

\* C1: on a collector with no recorded error, of two toResponse calls made
\* one after the other the first returns a Response and the second returns
\* the cannot-reuse error and no Response.
C1_SecondToResponseCannotReuse ==
    \A f, g \in Finalizers :
        ( /\ fpc[f] = "done" /\ fpc[g] = "done"
          /\ hist.prior[f] = {} /\ SoleCall(f)
          /\ f \in hist.prior[g]
          /\ collector.errs = <<>> )
        => /\ fresult[f].ok
           /\ ~fresult[g].ok
           /\ fresult[g].err = CannotReuseError
           /\ fresult[g].annotations = <<>>

C1_Witness ==
    \E f, g \in Finalizers :
        /\ fpc[f] = "done" /\ fpc[g] = "done"
        /\ hist.prior[f] = {} /\ f \in hist.prior[g]
        /\ collector.errs = <<>>
        /\ Len(fresult[f].annotations) = 2
        /\ fresult[g].err = CannotReuseError

\* C2: at most one toResponse call on a collector returns a Response, under
\* every interleaving of the calls.
C2_AtMostOneResponse ==
    Cardinality({f \in Finalizers : fresult[f].ok}) <= 1

\* C3: when AddAnnotation calls with valid options and known files, issued
\* concurrently through several writers, have all returned before toResponse
\* is called, the Response holds exactly the multiset of the annotations
\* added.
C3_NoAnnotationLostOrDuplicated ==
    \A f \in Finalizers :
        ( /\ fresult[f].ok
          /\ SoleCall(f)
          /\ AddsFinishedBefore(f)
          /\ hist.bad = 0 )
        => SeqToBag(fresult[f].annotations) = SeqToBag(hist.good)

C3_Witness ==
    \E f \in Finalizers :
        /\ fresult[f].ok /\ SoleCall(f) /\ AddsFinishedBefore(f)
        /\ hist.bad = 0
        /\ hist.overlap
        /\ {fresult[f].annotations[i].ruleID :
                i \in 1..Len(fresult[f].annotations)} = {1, 2}

\* C34: once toResponse has returned a Response, the Response stays as it
\* was returned and the slice it shares with the collector keeps the
\* annotations returned, in their order: every later AddAnnotation adds
\* nothing and records an error, and a change of the slice that
\* Annotations() returned changes nothing either.
C34_ResponseIsImmutable ==
    [][\A f \in Finalizers :
          fresult[f].ok =>
              /\ fresult'[f] = fresult[f]
              /\ collector'.annotations = fresult[f].annotations
              /\ \A w \in Writers :
                     (wpc[w] = "store" /\ wpc'[w] = "idle") =>
                         Len(collector'.errs) = Len(collector.errs) + 1]_vars

\* two toResponse calls passed the written test together; the second one's
\* sort has swapped the annotations of the Response the first one returned
C34_ResponseChangedAfterReturn ==
    \E f, g \in Finalizers :
        /\ f # g
        /\ fresult[f].ok /\ fresult[g].ok
        /\ Len(fresult[f].annotations) = 2
        /\ fresult[f].annotations = sortAnnotations(fresult[f].annotations)
        /\ collector.annotations # fresult[f].annotations

\* a Response was returned, AddAnnotation calls made later added nothing and
\* recorded errors, and the caller changed the slice Annotations() returned
C34_LaterCallsRejected ==
    \E f \in Finalizers :
        /\ fresult[f].ok /\ SoleCall(f) /\ hist.changed[f]
        /\ \A w \in Writers : wpc[w] = "idle"
        /\ Len(collector.errs) = 1
        /\ errCannotReuseResponseWriter \in {collector.errs[i] : i \in 1..Len(collector.errs)}
        /\ collector.annotations = fresult[f].annotations
        /\ Len(collector.annotations) = 1

\* no writer is inside an AddAnnotation call
WritersIdle == \A w \in Writers : wpc[w] = "idle"

\* C5: an AddAnnotation call with a bad option combination or an unknown
\* file records an error and adds nothing; the calls after it still take
\* effect; toResponse then returns the join of every recorded error and no
\* Response.
C5_ErrorsAccumulatedAndJoined ==
    /\ WritersIdle =>
        /\ Len(collector.errs) + Len(collector.annotations) = wcount
        /\ Len(collector.errs) >= hist.bad
        /\ SeqToBag(collector.annotations) \sqsubseteq SeqToBag(hist.good)
        /\ ~collector.written => SeqToBag(collector.annotations) = SeqToBag(hist.good)
    /\ \A f \in Finalizers :
        (fpc[f] = "done" /\ hist.seen[f] > 0) =>
            /\ ~fresult[f].ok
            /\ fresult[f].annotations = <<>>
            /\ fresult[f].err = JoinedError(SubSeq(collector.errs, 1, hist.seen[f]))
    /\ \A f \in Finalizers :
        ( /\ fpc[f] = "done" /\ hist.prior[f] = {} /\ SoleCall(f)
          /\ AddsFinishedBefore(f) /\ hist.bad > 0 ) =>
            /\ ~fresult[f].ok
            /\ fresult[f].err = JoinedError(collector.errs)
            /\ Len(collector.errs) = hist.bad

\* a bad call, then a good call whose annotation was added, then toResponse
C5_Witness ==
    \E f \in Finalizers :
        /\ fpc[f] = "done" /\ AddsFinishedBefore(f)
        /\ hist.bad = 1
        /\ collector.errs = <<errUnknownFile>>
        /\ Len(collector.annotations) = 1
        /\ fresult[f].err = JoinedError(<<errUnknownFile>>)

(***************************************************************************)
(* SpecCheck: one Check call, made on a provider, on the Client of a        *)
(* provider, or on the MultiClient over the delegates.                     *)
(***************************************************************************)
RuleIDSet == 1..MaxRuleID

\* the rule IDs of a provider's RuleSpecs, in the order of its Spec
RuleIDLists ==
    {<<a>> : a \in RuleIDSet} \cup {x \in RuleIDSet \X RuleIDSet : x[1] # x[2]}

HandlerVariants == {"one", "unsorted", "failing"}

errHandlerFailed == "handler failed"
errOtherHandlerFailed == "other handler failed"

\* the RuleHandler of the rule with the id
HandlerFor(variant, id) ==
    CASE variant = "one" -> [adds |-> <<OptFilePath>>, err |-> Nil]
      [] variant = "unsorted" ->
            [adds |-> <<OptDescriptor, OptMessage, OptFilePath>>, err |-> Nil]
      [] variant = "failing" ->
            IF id = 1 THEN [adds |-> <<OptUnknownFile, OptFilePath>>, err |-> Nil]
            ELSE IF id = 2 THEN [adds |-> <<OptFilePath>>, err |-> errHandlerFailed]
            ELSE [adds |-> <<>>, err |-> errOtherHandlerFailed]

RuleSpecsFor(variant, ids) ==
    [i \in 1..Len(ids) |->
        [ID |-> ids[i], CategoryIDs |-> <<>>,
         Handler |-> HandlerFor(variant, ids[i])]]

\* the providers a Client can be made for
Providers(variant) ==
    {newCheckServiceHandler(RuleSpecsFor(variant, ids)).c : ids \in RuleIDLists}

\* NewMultiClient(clients...) over none, one or two delegates
DelegateLists(variant) ==
    {<<>>} \cup {<<p>> : p \in Providers(variant)}
           \cup (Providers(variant) \X Providers(variant))

\* the Client made for the handler on a pluginrpc.Client whose calls fail
Unavailable(c) == [c EXCEPT !.unavailable = TRUE]

\* NewMultiClient(clients...) over two delegates of which one cannot be
\* reached
UnavailableDelegateLists ==
    {<<Unavailable(x[1]), x[2]>> : x \in Providers("one") \X Providers("one")}
        \cup
    {<<x[1], Unavailable(x[2])>> : x \in Providers("one") \X Providers("one")}

\* the rule IDs in descending order, as a caller may pass them to WithRuleIDs
RECURSIVE Descending(_)
Descending(ids) ==
    IF ids = {} THEN <<>>
    ELSE LET top == CHOOSE x \in ids : \A y \in ids : y <= x
         IN  <<top>> \o Descending(ids \ {top})

\* NewRequest(files, WithAgainstFiles, WithOption, WithRuleIDs) of the caller
CallerRequests ==
    {newRequest(CollectorRequest.files,
                WithRuleIDs(
                    WithOption(
                        WithAgainstFiles(newRequestOptions,
                                         CollectorRequest.againstFiles),
                        "k", "v"),
                    Descending(filter))).request : filter \in SUBSET RuleIDSet}

NoCalls == [listRules |-> 0, requests |-> <<>>, protos |-> <<>>, invoked |-> <<>>]

InitCheck ==
    /\ \/ \E variant \in HandlerVariants : clients \in DelegateLists(variant)
       \/ clients \in UnavailableDelegateLists
    /\ callerRequest \in CallerRequests
    /\ mc = McStart
    /\ cresult = Pending
    /\ lresult = NoListing
    /\ calls = [i \in 1..Len(clients) |-> NoCalls]
    /\ CollectorStart
    /\ RequestUnused
    /\ OthersUnused

\* what a call returned, as the result of the Check call
ProviderResult(res) ==
    IF res.ok THEN ResponseResult(res.annotations) ELSE ErrorResult(res.err)

\* the provider of delegate k receives the CheckRequest of the caller's
\* Request: checkServiceHandler.Check
ProviderCheck(k) ==
    /\ mc.pc = "start"
    /\ ~clients[k].unavailable
    /\ \E protoRequest \in {toProtos(callerRequest)[1]} :
       \E res \in {checkServiceHandlerCheck(clients[k], protoRequest)} :
           /\ cresult' = ProviderResult(res)
           /\ calls' = [calls EXCEPT ![k].protos = Append(@, protoRequest),
                                     ![k].invoked = @ \o res.invoked]
    /\ mc' = [mc EXCEPT !.pc = "done", !.op = "provider", !.i = k]
    /\ UNCHANGED <<clients, callerRequest, lresult>>
    /\ UNCHANGED otherThanCheck

\* client.Check on the Client of delegate k
ClientCheck(k) ==
    /\ mc.pc = "start"
    /\ \E res \in {clientCheck(clients[k], callerRequest)} :
           /\ cresult' = res.result
           /\ calls' = [calls EXCEPT ![k].requests = Append(@, callerRequest),
                                     ![k].protos = @ \o res.sent,
                                     ![k].invoked = @ \o res.invoked]
    /\ mc' = [mc EXCEPT !.pc = "done", !.op = "client", !.i = k]
    /\ UNCHANGED <<clients, callerRequest, lresult>>
    /\ UNCHANGED otherThanCheck

\* multiClient.Check, case 0
MultiCheckNone ==
    /\ mc.pc = "start"
    /\ Len(clients) = 0
    /\ cresult' = ResponseResult(newResponse(<<>>).annotations)
    /\ mc' = [mc EXCEPT !.pc = "done", !.op = "multi"]
    /\ UNCHANGED <<clients, callerRequest, lresult, calls>>
    /\ UNCHANGED otherThanCheck

\* multiClient.Check, case 1
MultiCheckOne ==
    /\ mc.pc = "start"
    /\ Len(clients) = 1
    /\ \E res \in {clientCheck(clients[1], callerRequest)} :
           /\ cresult' = res.result
           /\ calls' = [calls EXCEPT ![1].requests = Append(@, callerRequest),
                                     ![1].protos = @ \o res.sent,
                                     ![1].invoked = @ \o res.invoked]
    /\ mc' = [mc EXCEPT !.pc = "done", !.op = "multi"]
    /\ UNCHANGED <<clients, callerRequest, lresult>>
    /\ UNCHANGED otherThanCheck

\* multiClient.Check, default case up to the loop over the delegates:
\* getRulesAndChunkedRuleIDs and the requested rule IDs
MultiCheckListRules ==
    /\ mc.pc = "start"
    /\ Len(clients) >= 2
    /\ \E g \in {getRulesAndChunkedRuleIDs(clients)} :
           /\ calls' = [i \in 1..Len(clients) |->
                           IF i <= g.listed
                           THEN [calls[i] EXCEPT !.listRules = @ + 1]
                           ELSE calls[i]]
           /\ IF g.err # NoError
              THEN /\ cresult' = ErrorResult(g.err)
                   /\ mc' = [mc EXCEPT !.pc = "done", !.op = "multi"]
              ELSE /\ cresult' = cresult
                   /\ mc' = [mc EXCEPT
                          !.pc = "delegates", !.op = "multi", !.i = 1,
                          !.allRules = g.rules,
                          !.chunkedRuleIDs = g.chunkedRuleIDs,
                          !.requestRuleIDs =
                              IF Len(callerRequest.ruleIDs) = 0
                              THEN Map(g.rules, RuleID)
                              ELSE callerRequest.ruleIDs]
    /\ UNCHANGED <<clients, callerRequest, lresult>>
    /\ UNCHANGED otherThanCheck

\* one iteration of the loop over the delegates: the delegate Request is
\* built and delegate.Check is called
MultiCheckDelegate ==
    /\ mc.pc = "delegates"
    /\ mc.i <= Len(clients)
    /\ \E delegateRequest \in
           {newRequest(callerRequest.files,
                       WithRuleIDs(
                           WithOptions(
                               WithAgainstFiles(newRequestOptions,
                                                callerRequest.againstFiles),
                               callerRequest.options),
                           requestDelegateRuleIDs(mc.chunkedRuleIDs[mc.i],
                                                  mc.requestRuleIDs)))} :
       IF delegateRequest.err # Nil
       THEN /\ cresult' = ErrorResult(PlainError(delegateRequest.err))
            /\ mc' = [mc EXCEPT !.pc = "done"]
            /\ calls' = calls
       ELSE \E res \in {clientCheck(clients[mc.i], delegateRequest.request)} :
            /\ calls' = [calls EXCEPT
                   ![mc.i].requests = Append(@, delegateRequest.request),
                   ![mc.i].protos = @ \o res.sent,
                   ![mc.i].invoked = @ \o res.invoked]
            /\ IF ~res.result.ok
               THEN /\ cresult' = res.result
                    /\ mc' = [mc EXCEPT !.pc = "done"]
               ELSE /\ cresult' = cresult
                    /\ mc' = [mc EXCEPT
                           !.i = @ + 1,
                           !.allAnnotations = @ \o res.result.annotations]
    /\ UNCHANGED <<clients, callerRequest, lresult>>
    /\ UNCHANGED otherThanCheck

\* after the loop: newResponse(allAnnotations)
MultiCheckReturn ==
    /\ mc.pc = "delegates"
    /\ mc.i > Len(clients)
    /\ cresult' = ResponseResult(newResponse(mc.allAnnotations).annotations)
    /\ mc' = [mc EXCEPT !.pc = "done"]
    /\ UNCHANGED <<clients, callerRequest, lresult, calls>>
    /\ UNCHANGED otherThanCheck

\* multiClient.ListRules
MultiListRules ==
    /\ mc.pc = "start"
    /\ \E l \in {IF Len(clients) = 0
                 THEN [rules |-> <<>>, err |-> NoError, listed |-> 0]
                 ELSE IF Len(clients) = 1
                 THEN [rules |-> clientListRules(clients[1]).rules,
                       err |-> clientListRules(clients[1]).err, listed |-> 1]
                 ELSE getRulesAndChunkedRuleIDs(clients)} :
           /\ lresult' = [rules |-> l.rules, err |-> l.err, calls |-> l.listed]
           /\ calls' = [i \in 1..Len(clients) |->
                           IF i <= l.listed
                           THEN [calls[i] EXCEPT !.listRules = @ + 1]
                           ELSE calls[i]]
    /\ mc' = [mc EXCEPT !.pc = "done", !.op = "multiList"]
    /\ UNCHANGED <<clients, callerRequest, cresult>>
    /\ UNCHANGED otherThanCheck

NextCheck ==
    \/ MultiListRules
    \/ \E k \in 1..Len(clients) : ProviderCheck(k)
    \/ \E k \in 1..Len(clients) : ClientCheck(k)
    \/ MultiCheckNone
    \/ MultiCheckOne
    \/ MultiCheckListRules
    \/ MultiCheckDelegate
    \/ MultiCheckReturn

SpecCheck == InitCheck /\ [][NextCheck]_vars

(***************************************************************************)
(* Properties of Check under SpecCheck.                                    *)
(***************************************************************************)
\* the IDs of the rules that the ListRules of delegate k's Client returns
ListedIDs(k) ==
    {clientListRules(clients[k]).rules[j].ID :
         j \in 1..Len(clientListRules(clients[k]).rules)}

\* the caller's rule-ID filter
Filter == SeqToSet(callerRequest.ruleIDs)

\* the rules the caller's Request selects on the provider of delegate k
SelectedIDs(k) == IF Filter = {} THEN ListedIDs(k) ELSE Filter

\* how many annotations of the sequence carry the rule ID
CountOf(annotations, id) ==
    Cardinality({j \in 1..Len(annotations) : annotations[j].ruleID = id})

\* the AddAnnotation calls the handler of the rule makes on its writer
AddsOf(k, id) == Len(clients[k].ruleIDToRuleSpec[id].Handler.adds)

\* C4: every annotation a handler adds through the ResponseWriter of rule R
\* carries rule ID R: the Response of a provider's Check holds, for each
\* selected rule, as many annotations with its ID as its handler added, and
\* none with any other ID; every selected rule is one ListRules lists.
C4_AnnotationsCarryTheirRuleID ==
    (mc.op = "provider" /\ cresult.ok) =>
        /\ SelectedIDs(mc.i) \subseteq ListedIDs(mc.i)
        /\ \A j \in 1..Len(cresult.annotations) :
               cresult.annotations[j].ruleID \in SelectedIDs(mc.i)
        /\ \A id \in SelectedIDs(mc.i) :
               CountOf(cresult.annotations, id) = AddsOf(mc.i, id)

\* a provider whose Spec lists rule 2 before rule 1 ran both handlers, each
\* adding three annotations
C4_Witness ==
    /\ mc.op = "provider" /\ cresult.ok
    /\ Filter = {1, 2}
    /\ clients[mc.i].ruleSpecs[1].ID = 2
    /\ CountOf(cresult.annotations, 1) = 3
    /\ CountOf(cresult.annotations, 2) = 3

\* lexical order of two structural paths
RECURSIVE PathAtMost(_, _)
PathAtMost(p, q) ==
    IF p = <<>> THEN TRUE
    ELSE IF q = <<>> THEN FALSE
    ELSE IF Head(p) # Head(q) THEN Head(p) < Head(q)
    ELSE PathAtMost(Tail(p), Tail(q))

\* a missing location before a present one, then file name, then path
LocationAtMost(l, m) ==
    \/ ~l.present
    \/ /\ l.present /\ m.present
       /\ \/ StrRank(l.fileName) < StrRank(m.fileName)
          \/ l.fileName = m.fileName /\ PathAtMost(l.sourcePath, m.sourcePath)

AnnotationAtMost(a, b) ==
    \/ a.ruleID < b.ruleID
    \/ a.ruleID = b.ruleID /\ LocationAtMost(a.location, b.location)

\* C6: the annotations of the Response of a provider Check, a Client Check
\* and a MultiClient Check are in ascending order of rule ID, then file
\* name, then path, a missing location first.
C6_ResponseAscending ==
    cresult.ok =>
        \A i, j \in 1..Len(cresult.annotations) :
            i < j => AnnotationAtMost(cresult.annotations[i],
                                      cresult.annotations[j])

\* a MultiClient whose first delegate has the greater rule ID, and whose
\* handlers add a present location before a missing one
C6_Witness ==
    /\ mc.op = "multi" /\ mc.pc = "done" /\ cresult.ok
    /\ Len(clients) = 2
    /\ Len(cresult.annotations) >= 6
    /\ mc.allAnnotations # cresult.annotations
    /\ mc.allAnnotations[1].ruleID > mc.allAnnotations[Len(mc.allAnnotations)].ruleID
    /\ \E j \in 1..Len(cresult.annotations) : ~cresult.annotations[j].location.present

\* C7: in a MultiClient over two or more delegates, a delegate that has no
\* rule ID in common with the caller's non-empty filter gets no Check call.
C7_DisjointDelegateNotCalled ==
    (mc.op = "multi" /\ Len(clients) >= 2 /\ Filter # {}) =>
        \A i \in 1..Len(clients) :
            ListedIDs(i) \cap Filter = {} =>
                calls[i].requests = <<>> /\ calls[i].protos = <<>>

\* C8: the Response of MultiClient.Check with a non-empty filter holds only
\* annotations whose rule ID is in the filter.
C8_OnlyFilteredAnnotations ==
    (mc.op = "multi" /\ mc.pc = "done" /\ cresult.ok /\ Filter # {}) =>
        \A j \in 1..Len(cresult.annotations) :
            cresult.annotations[j].ruleID \in Filter

\* the rule IDs asked of the delegates: the filter, or every delegate's rules
WantedIDs ==
    IF Filter = {} THEN UNION {ListedIDs(i) : i \in 1..Len(clients)} ELSE Filter

\* C9: in MultiClient.Check over two or more delegates, the Request given to
\* delegate i names exactly the wanted rule IDs that delegate i lists, each
\* once, and each delegate's ListRules is called once per Check.
C9_DelegateRequestIsIntersection ==
    (mc.op = "multi" /\ Len(clients) >= 2) =>
        \A i \in 1..Len(clients) :
            /\ calls[i].listRules <= 1
            /\ Len(calls[i].requests) <= 1
            /\ \A j \in 1..Len(calls[i].requests) :
                   /\ SeqToSet(calls[i].requests[j].ruleIDs)
                          = WantedIDs \cap ListedIDs(i)
                   /\ Len(calls[i].requests[j].ruleIDs)
                          = Cardinality(SeqToSet(calls[i].requests[j].ruleIDs))
            /\ mc.pc = "delegates" => calls[i].listRules = 1
            /\ (mc.pc = "done" /\ cresult.ok) =>
                   calls[i].listRules = 1 /\ Len(calls[i].requests) = 1

\* two delegates each asked for a part of the filter that is not all of
\* their own rules
C9_Witness ==
    /\ mc.op = "multi" /\ mc.pc = "done" /\ cresult.ok
    /\ Len(clients) = 2
    /\ Filter = {1, 3}
    /\ \E i \in 1..2 :
           /\ Len(calls[i].requests) = 1
           /\ calls[i].requests[1].ruleIDs = <<1>>
           /\ ListedIDs(i) = {1, 2}
    /\ \E i \in 1..2 :
           /\ Len(calls[i].requests) = 1
           /\ calls[i].requests[1].ruleIDs = <<3>>

\* the RuleHandler of the rule with the id on the provider of delegate k
HandlerOf(k, id) == clients[k].ruleIDToRuleSpec[id].Handler

\* the rules whose handlers the provider of delegate k invoked, in order
Invoked(k) == calls[k].invoked

\* C16: a provider Check whose filter holds an ID that is not registered
\* fails with InvalidArgument, returns no annotations and invokes no handler,
\* not even those of the registered IDs of the filter.
C16_UnknownRuleIDRejected ==
    (mc.op = "provider" /\ ~(Filter \subseteq ListedIDs(mc.i))) =>
        /\ ~cresult.ok
        /\ cresult.err.kind = "invalidArgument"
        /\ cresult.annotations = <<>>
        /\ Invoked(mc.i) = <<>>

\* the filter names rule 1, which is registered, before rule 2, which is not
C16_Witness ==
    /\ mc.op = "provider"
    /\ Filter = {1, 2}
    /\ ListedIDs(mc.i) = {1, 3}
    /\ cresult.err = InvalidArgument(errUnknownRuleID)
    /\ Invoked(mc.i) = <<>>

\* some selected handler of the provider of delegate k returns an error
SomeHandlerFails(k) ==
    /\ Filter \subseteq ListedIDs(k)
    /\ \E id \in SelectedIDs(k) : HandlerOf(k, id).err # Nil

\* C17: when a selected handler returns an error, the provider's Check
\* returns that error and no Response, and invokes no handler after the
\* failing one.
C17_HandlerErrorAbortsCheck ==
    (mc.op = "provider" /\ SomeHandlerFails(mc.i)) =>
        /\ ~cresult.ok
        /\ cresult.annotations = <<>>
        /\ Invoked(mc.i) # <<>>
        /\ cresult.err =
               PlainError(HandlerOf(mc.i, Invoked(mc.i)[Len(Invoked(mc.i))]).err)
        /\ \A j \in 1..(Len(Invoked(mc.i)) - 1) :
               HandlerOf(mc.i, Invoked(mc.i)[j]).err = Nil

\* rule 2 adds an annotation and fails; rule 3, whose handler fails with
\* another error, is not invoked
C17_Witness ==
    /\ mc.op = "provider"
    /\ Filter = {}
    /\ Len(clients[mc.i].ruleSpecs) = 2
    /\ clients[mc.i].ruleSpecs[1].ID = 2
    /\ clients[mc.i].ruleSpecs[2].ID = 3
    /\ HandlerOf(mc.i, 3).err # Nil
    /\ Invoked(mc.i) = <<2>>
    /\ cresult.err = PlainError(errHandlerFailed)
    /\ cresult.annotations = <<>>

\* C18: the provider invokes the handlers in spec order, the order of the
\* RuleSpecs given at construction, with an empty and with a non-empty filter.
C18_HandlersInSpecOrder ==
    mc.op = "provider" =>
        \A a, b \in 1..Len(Invoked(mc.i)) :
            a < b => clients[mc.i].ruleIDToIndex[Invoked(mc.i)[a]]
                         < clients[mc.i].ruleIDToIndex[Invoked(mc.i)[b]]

C19_WitnessAll ==
    /\ mc.op = "provider"
    /\ Filter = {}
    /\ Len(clients[mc.i].ruleSpecs) = 2
    /\ Len(Invoked(mc.i)) = 2
    /\ cresult.ok

FilterSizes ==
    {0, 1, 2} \cup {k * checkRuleIDPageSize + d :
                       k \in 1..MaxChunks, d \in {-1, 0, 1}}

Ascending(n) == [i \in 1..n |-> i]

\* the rule IDs 1..n as the caller passes them to WithRuleIDs
GivenRuleIDs(n, order) ==
    CASE order = "ascending" -> Ascending(n)
      [] order = "descending" -> [i \in 1..n |-> n + 1 - i]
      [] order = "repeated" -> [i \in 1..n |-> n + 1 - i] \o Ascending(n)

InitRequest ==
    /\ rpc = "new"
    /\ \E n \in FilterSizes, order \in {"ascending", "descending", "repeated"},
          files \in {CollectorRequest.files, <<CollectorRequest.files[1]>>},
          againstFiles \in {<<>>, CollectorRequest.againstFiles},
          optionValue \in {"none", "v", ""} :
           given = [files |-> files, againstFiles |-> againstFiles,
                    optionValue |-> optionValue,
                    ruleIDs |-> GivenRuleIDs(n, order)]
    /\ built = [request |-> NilRequest, err |-> Nil]
    /\ protos = <<>>
    /\ CollectorStart
    /\ CheckUnused
    /\ OthersUnused

\* the RequestOptions of the call, applied in order
GivenRequestOptions ==
    WithRuleIDs(
        IF given.optionValue = "none"
        THEN WithAgainstFiles(newRequestOptions, given.againstFiles)
        ELSE WithOption(WithAgainstFiles(newRequestOptions, given.againstFiles),
                        "k", given.optionValue),
        given.ruleIDs)

\* NewRequest(files, options...)
NewRequest ==
    /\ rpc = "new"
    /\ built' = newRequest(given.files, GivenRequestOptions)
    /\ rpc' = "built"
    /\ UNCHANGED <<given, protos>>
    /\ UNCHANGED otherThanRequest

\* request.toProtos() in client.Check, on the Request that NewRequest returned
ToProtos ==
    /\ rpc = "built"
    /\ built.err = Nil
    /\ protos' = toProtos(built.request)
    /\ rpc' = "sent"
    /\ UNCHANGED <<given, built>>
    /\ UNCHANGED otherThanRequest

NextRequest == NewRequest \/ ToProtos

SpecRequest == InitRequest /\ [][NextRequest]_vars

(***************************************************************************)
(* Properties of the Request under SpecRequest.                            *)
(***************************************************************************)
RECURSIVE ConcatRuleIds(_)
ConcatRuleIds(checkRequests) ==
    IF checkRequests = <<>> THEN <<>>
    ELSE Head(checkRequests).ruleIds \o ConcatRuleIds(Tail(checkRequests))

FileNames(protoFiles) ==
    [i \in 1..Len(protoFiles) |-> protoFiles[i].fileDescriptorProto.name]

GivenFileNames(files) == [i \in 1..Len(files) |-> files[i].name]

\* the distinct rule IDs the caller gave
GivenIDs == SeqToSet(given.ruleIDs)

\* C10: the Request holds the given rule IDs sorted and without duplicates;
\* with n >= 1 of them it is serialized into ceil(n/250) CheckRequests of 1
\* to 250 rule IDs each, which concatenated are the sorted filter, and with
\* none into one CheckRequest without rule IDs; every CheckRequest carries
\* the Request's files, against files and options.
C10_ChunksPartitionTheFilter ==
    rpc = "sent" =>
        /\ SeqToSet(built.request.ruleIDs) = GivenIDs
        /\ Len(built.request.ruleIDs) = Cardinality(GivenIDs)
        /\ \A i \in 1..(Len(built.request.ruleIDs) - 1) :
               built.request.ruleIDs[i] < built.request.ruleIDs[i + 1]
        /\ IF GivenIDs = {}
           THEN Len(protos) = 1 /\ protos[1].ruleIds = <<>>
           ELSE /\ Len(protos) * 250 >= Cardinality(GivenIDs)
                /\ (Len(protos) - 1) * 250 < Cardinality(GivenIDs)
                /\ \A j \in 1..Len(protos) :
                       Len(protos[j].ruleIds) >= 1 /\ Len(protos[j].ruleIds) <= 250
        /\ ConcatRuleIds(protos) = built.request.ruleIDs
        /\ \A j \in 1..Len(protos) :
               /\ FileNames(protos[j].files) = GivenFileNames(given.files)
               /\ FileNames(protos[j].againstFiles)
                      = GivenFileNames(given.againstFiles)
               /\ protos[j].options =
                      IF given.optionValue = "none" THEN <<>>
                      ELSE <<[key |-> "k", value |-> given.optionValue]>>

\* 501 distinct rule IDs, given twice and out of order, sent as 3 chunks
C10_Witness ==
    /\ rpc = "sent"
    /\ Cardinality(GivenIDs) = 501
    /\ Len(given.ruleIDs) = 1002
    /\ Len(protos) = 3
    /\ Len(protos[3].ruleIds) = 1
    /\ given.optionValue = "v"

(***************************************************************************)
(* SpecPaging: the rules of one provider are listed, by one ListRules call *)
(* with some page token, by a caller that follows the next page tokens     *)
(* from the empty token on, or by Client.ListRules.                        *)
(***************************************************************************)
\* the rule IDs of a small provider, in the order of its Spec: one to
\* MaxRuleID different IDs in any order
PagingRuleIDLists ==
    {ids \in UNION {[1..n -> RuleIDSet] : n \in 1..MaxRuleID} :
        Cardinality(SeqToSet(ids)) = Len(ids)}

\* the rule counts of TestClientListRulesCount
ListedCounts ==
    {listRulesPageSize - 1, listRulesPageSize, listRulesPageSize + 1,
     listRulesPageSize * 2, listRulesPageSize * 2 + 1, listRulesPageSize * 4 + 1}

\* construction orders of the rules 1..n: ascending, reversed as the test
\* does, and rotated by half
ConstructionOrders(n) ==
    {[i \in 1..n |-> i],
     [i \in 1..n |-> n + 1 - i],
     [i \in 1..n |-> ((i + (n \div 2)) % n) + 1]}

LargeRuleIDLists == UNION {ConstructionOrders(n) : n \in ListedCounts}

SmallProviders ==
    {newCheckServiceHandler(RuleSpecsFor("one", ids)).c : ids \in PagingRuleIDLists}

LargeProviders ==
    {newCheckServiceHandler(RuleSpecsFor("one", ids)).c : ids \in LargeRuleIDLists}

\* the page sizes a caller asks for; 0 asks for the default
PageSizes(c) ==
    IF Len(c.ruleSpecs) <= MaxRuleID
    THEN (0..MaxRuleID) \cup {listRulesPageSize}
    ELSE {0, listRulesPageSize}

\* the page tokens a caller sends: the empty one, IDs of rules, unknown IDs
PageTokens(c) ==
    (0..(MaxRuleID + 1)) \cup {Len(c.ruleSpecs), Len(c.ruleSpecs) + 1}

InitPaging ==
    /\ pgProvider \in SmallProviders \cup LargeProviders
    /\ pgSize \in PageSizes(pgProvider)
    /\ pgToken = 0
    /\ pgSent = <<>>
    /\ pgResponse = NoListRulesResponse
    /\ pgRules = <<>>
    /\ pgPc = "start"
    /\ pgListing = NoListing
    /\ CollectorStart
    /\ CheckUnused
    /\ RequestUnused
    /\ ChunkedUnused
    /\ ListingUnused
    /\ ValidateUnused

\* one ListRules call with the page token
ListRulesAt(token) ==
    /\ pgPc = "start"
    /\ \E listRulesRequest \in {[pageSize |-> pgSize, pageToken |-> token]} :
           /\ pgSent' = <<listRulesRequest>>
           /\ pgResponse' = checkServiceHandlerListRules(pgProvider,
                                                         listRulesRequest)
    /\ pgPc' = "probed"
    /\ UNCHANGED <<pgProvider, pgSize, pgToken, pgRules, pgListing>>
    /\ UNCHANGED otherThanPaging

\* one round of the paging loop: ListRules with the loop's pageToken, the
\* rules of the response are appended, and the loop ends when the next page
\* token is empty or the call failed
ListRulesNext ==
    /\ pgPc \in {"start", "paging"}
    /\ Len(pgSent) < MaxPageCalls
    /\ \E listRulesRequest \in {[pageSize |-> pgSize, pageToken |-> pgToken]} :
       \E response \in {checkServiceHandlerListRules(pgProvider,
                                                     listRulesRequest)} :
           /\ pgSent' = Append(pgSent, listRulesRequest)
           /\ pgResponse' = response
           /\ IF response.err # NoError
              THEN pgPc' = "failed" /\ UNCHANGED <<pgRules, pgToken>>
              ELSE /\ pgRules' = pgRules \o response.rules
                   /\ pgToken' = response.nextPageToken
                   /\ pgPc' = IF response.nextPageToken = 0
                              THEN "paged" ELSE "paging"
    /\ UNCHANGED <<pgProvider, pgSize, pgListing>>
    /\ UNCHANGED otherThanPaging

\* Client.ListRules of a Client made for the provider
ClientListRules ==
    /\ pgPc = "start"
    /\ pgSize = listRulesPageSize
    /\ pgListing' = clientListRules(pgProvider)
    /\ pgPc' = "listed"
    /\ UNCHANGED <<pgProvider, pgSize, pgToken, pgSent, pgResponse, pgRules>>
    /\ UNCHANGED otherThanPaging

NextPaging ==
    \/ \E token \in PageTokens(pgProvider) : ListRulesAt(token)
    \/ ListRulesNext
    \/ ClientListRules

SpecPaging == InitPaging /\ [][NextPaging]_vars

(***************************************************************************)
(* Properties of the listing under SpecPaging.                             *)
(***************************************************************************)
\* the last ListRulesRequest the provider received
LastSent == pgSent[Len(pgSent)]

\* the IDs of the provider's rules, in the provider's fixed order
RegisteredIDs == [i \in 1..Len(pgProvider.ruleSpecs) |-> pgProvider.ruleSpecs[i].ID]

\* the position of the rule a page token names; the first for the empty one
StartOf(token) ==
    IF token = 0 THEN 1
    ELSE CHOOSE i \in 1..Len(RegisteredIDs) : RegisteredIDs[i] = token

\* the page size asked for
AskedSize(size) == IF size = 0 THEN 250 ELSE size

\* the response is the run of n rules from the position first on
IsRunFrom(response, first, n) ==
    /\ Len(response.rules) = n
    /\ first + n - 1 <= Len(RegisteredIDs)
    /\ \A j \in 1..n : response.rules[j].id = RegisteredIDs[first + j - 1]
    /\ response.nextPageToken =
           IF first + n <= Len(RegisteredIDs) THEN RegisteredIDs[first + n] ELSE 0

\* C12: ListRules(pageSize, pageToken) fails with InvalidArgument exactly
\* when the page token is not empty and is not the ID of a registered rule;
\* otherwise it returns the run of at most pageSize rules (250 when pageSize
\* is 0) that starts at the rule the token names (at the first rule when
\* the token is empty) and stops short of pageSize only at the end of the
\* rules, and nextPageToken is the ID of the first rule after the run, or
\* empty when the run reaches the end.
C12_ListRulesPage ==
    pgSent # <<>> =>
        IF LastSent.pageToken # 0 /\ LastSent.pageToken \notin SeqToSet(RegisteredIDs)
        THEN pgResponse.err.kind = "invalidArgument"
        ELSE /\ pgResponse.err = NoError
             /\ Len(pgResponse.rules) <= AskedSize(LastSent.pageSize)
             /\ \/ Len(pgResponse.rules) = AskedSize(LastSent.pageSize)
                \/ pgResponse.nextPageToken = 0
             /\ IsRunFrom(pgResponse, StartOf(LastSent.pageToken),
                          Len(pgResponse.rules))

\* a page of two rules that starts at the second rule of three, and is
\* followed by no other
C12_Witness ==
    /\ pgPc = "probed"
    /\ Len(RegisteredIDs) = 3
    /\ LastSent = [pageSize |-> 2, pageToken |-> RegisteredIDs[2]]
    /\ RegisteredIDs[2] > RegisteredIDs[3]
    /\ Len(pgResponse.rules) = 2
    /\ pgResponse.nextPageToken = 0

\* an unknown page token is refused
C12_WitnessUnknown ==
    /\ pgPc = "probed"
    /\ LastSent.pageToken # 0
    /\ LastSent.pageToken \notin SeqToSet(RegisteredIDs)
    /\ pgResponse.err = InvalidArgument(errUnknownPageToken)

\* the IDs of the listed proto rules
ListedRuleIDs(protoRules) == [i \in 1..Len(protoRules) |-> protoRules[i].id]

\* C13: following the next page tokens from the empty token never fails and
\* ends within as many calls as the provider has rules, and when the next
\* page token is empty every rule of the provider has been returned exactly
\* once, in the provider's order, for any page size.
C13_PagingListsEveryRuleOnce ==
    /\ pgPc # "failed"
    /\ pgPc = "paging" => Len(pgSent) < Len(RegisteredIDs)
    /\ pgPc = "paged" =>
           /\ Len(pgRules) = Len(RegisteredIDs)
           /\ SeqToSet(ListedRuleIDs(pgRules)) = SeqToSet(RegisteredIDs)
           /\ ListedRuleIDs(pgRules) = RegisteredIDs

\* three rules in pages of two: one more than a multiple of the page size
C13_Witness ==
    /\ pgPc = "paged"
    /\ pgSize = 2
    /\ Len(RegisteredIDs) = 3
    /\ Len(pgSent) = 2
    /\ Len(pgRules) = 3

\* two rules in pages of two, and one rule in pages of two: a multiple of
\* the page size, and one less
C13_WitnessMultiple ==
    pgPc = "paged" /\ pgSize = 2 /\ Len(RegisteredIDs) = 2 /\ Len(pgSent) = 1

C13_WitnessOneLess ==
    pgPc = "paged" /\ pgSize = 2 /\ Len(RegisteredIDs) = 1 /\ Len(pgSent) = 1

\* 1001 rules in pages of 250
C13_WitnessLarge ==
    pgPc = "paged" /\ pgSize = 250 /\ Len(RegisteredIDs) = 1001 /\ Len(pgSent) = 5

\* max(1, ceil(n / listRulesPageSize))
PageCalls(n) ==
    IF n <= listRulesPageSize THEN 1
    ELSE (n + listRulesPageSize - 1) \div listRulesPageSize

\* C37: on a provider of N rules whose calls succeed, the paging loop of
\* Client.ListRules makes max(1, ceil(N / 250)) ListRules calls and ends: the
\* first call has the empty page token, every later one the next page token
\* of the call before it, no page token is sent twice, and the loop ends
\* with the first response whose next page token is empty.
C37_PagingLoopEnds ==
    /\ pgPc = "listed" =>
           /\ pgListing.err = NoError
           /\ pgListing.calls = PageCalls(Len(RegisteredIDs))
    /\ (pgSize = listRulesPageSize /\ pgPc \in {"paging", "paged"}) =>
           /\ pgSent[1].pageToken = 0
           /\ \A i \in 2..Len(pgSent) :
                  /\ pgSent[i].pageToken # 0
                  /\ pgSent[i].pageToken =
                         checkServiceHandlerListRules(
                             pgProvider, pgSent[i - 1]).nextPageToken
           /\ \A i, j \in 1..Len(pgSent) :
                  i # j => pgSent[i].pageToken # pgSent[j].pageToken
           /\ pgPc = "paging" =>
                  /\ pgResponse.nextPageToken # 0
                  /\ Len(pgSent) < PageCalls(Len(RegisteredIDs))
           /\ pgPc = "paged" =>
                  /\ pgResponse.nextPageToken = 0
                  /\ Len(pgSent) = PageCalls(Len(RegisteredIDs))

\* 501 rules: Client.ListRules made three calls
C37_Witness ==
    /\ pgPc = "listed"
    /\ Len(RegisteredIDs) = listRulesPageSize * 2 + 1
    /\ pgListing.calls = 3

\* 250 rules, listed with one call, and 1001 rules, with five
C37_WitnessFullPage ==
    /\ pgPc = "paged" /\ pgSize = listRulesPageSize
    /\ Len(RegisteredIDs) = listRulesPageSize
    /\ Len(pgSent) = 1

C37_WitnessLarge ==
    /\ pgPc = "paged" /\ pgSize = listRulesPageSize
    /\ Len(RegisteredIDs) = listRulesPageSize * 4 + 1
    /\ Len(pgSent) = 5
    /\ pgSent[5].pageToken # 0

\* C14: Client.ListRules on a provider of N rules registered in any order
\* returns N rules, one per registered rule, in ascending order of rule ID;
\* N is 249, 250, 251, 500, 501 or 1001, or at most MaxRuleID.
C14_ClientListRulesAscending ==
    pgPc = "listed" =>
        /\ pgListing.err = NoError
        /\ Len(pgListing.rules) = Len(RegisteredIDs)
        /\ {pgListing.rules[i].ID : i \in 1..Len(pgListing.rules)}
               = SeqToSet(RegisteredIDs)
        /\ \A i \in 1..(Len(pgListing.rules) - 1) :
               compareRules(pgListing.rules[i], pgListing.rules[i + 1]) < 0

\* 1001 rules registered in reverse order, listed with 5 provider calls
C14_Witness ==
    /\ pgPc = "listed"
    /\ Len(RegisteredIDs) = 1001
    /\ RegisteredIDs[1] = 1001
    /\ RegisteredIDs[1001] = 1
    /\ pgListing.calls = 5
    /\ pgListing.rules[1].ID = 1
    /\ pgListing.rules[1001].ID = 1001

(***************************************************************************)
(* SpecChunked: a Client.Check whose Request names more than 250 rule IDs, *)
(* and the same Check with all the rule IDs in one CheckRequest.           *)
(***************************************************************************)
\* the provider has ChunkedRules rules: one more than a full chunk
ChunkedRules == checkRuleIDPageSize + 1

\* the rules whose handlers add annotations: the first rule, the last rule of
\* the first chunk and the first rule of the second chunk, or some of them
AddingRules == SUBSET {1, checkRuleIDPageSize, checkRuleIDPageSize + 1}

\* an annotation at the place of OptFilePath with another message
OptFilePathAgain ==
    WithSourcePath(WithFileName(WithMessage(newAddAnnotationOptions, "n"),
                                "a.proto"), <<4, 0>>)

\* the AddAnnotation calls of an adding handler
ChunkedAdds ==
    {<<OptFilePath>>, <<OptDescriptor, OptFilePathAgain, OptFilePath>>,
     <<OptFilePath, OptUnknownFile>>}

\* the RuleSpecs of the provider: the handlers of the adding rules make the
\* calls of adds, the handlers of the failing rules return an error, the
\* others do nothing; none looks at the rule IDs of the Request
ChunkedRuleSpecs(ids, adding, adds, failing) ==
    [i \in 1..Len(ids) |->
        [ID |-> ids[i],
         CategoryIDs |-> <<>>,
         Handler |-> [adds |-> IF ids[i] \in adding THEN adds ELSE <<>>,
                      err |-> IF ids[i] \in failing THEN errHandlerFailed
                              ELSE Nil]]]

ChunkedProviders ==
    {newCheckServiceHandler(ChunkedRuleSpecs(ids, adding, adds, failing)).c :
        ids \in ConstructionOrders(ChunkedRules), adding \in AddingRules,
        adds \in ChunkedAdds, failing \in {{}, {ChunkedRules}}}

\* the Requests: all the rule IDs of the provider, given in descending
\* order, and those with one more that the provider does not know
ChunkedRequests ==
    {newRequest(CollectorRequest.files,
                WithRuleIDs(
                    WithOption(
                        WithAgainstFiles(newRequestOptions,
                                         CollectorRequest.againstFiles),
                        "k", "v"),
                    [i \in 1..n |-> n + 1 - i])).request :
        n \in {ChunkedRules, ChunkedRules + 1}}

InitChunked ==
    /\ ckProvider \in ChunkedProviders
    /\ ckRequest \in ChunkedRequests
    /\ ckChunked = NoCheck
    /\ ckUnchunked = NoCheck
    /\ CollectorStart
    /\ CheckUnused
    /\ RequestUnused
    /\ PagingUnused
    /\ ListingUnused
    /\ ValidateUnused

\* Client.Check: one CheckRequest per chunk of toProtos
ClientCheckChunked ==
    /\ ~ckChunked.result.done
    /\ \E res \in {clientCheck(ckProvider, ckRequest)} :
           ckChunked' = [result |-> res.result, sent |-> Len(res.sent)]
    /\ UNCHANGED <<ckProvider, ckRequest, ckUnchunked>>
    /\ UNCHANGED otherThanChunked

\* the same Check with the one CheckRequest of the transport that does not
\* chunk
ClientCheckUnchunked ==
    /\ ~ckUnchunked.result.done
    /\ \E res \in {clientCheckWritten(ckProvider, <<toProtoUnchunked(ckRequest)>>,
                                      newMultiResponseWriter(ckRequest))} :
           ckUnchunked' = [result |-> res.result, sent |-> Len(res.sent)]
    /\ UNCHANGED <<ckProvider, ckRequest, ckChunked>>
    /\ UNCHANGED otherThanChunked

NextChunked == ClientCheckChunked \/ ClientCheckUnchunked

SpecChunked == InitChunked /\ [][NextChunked]_vars

CategoryIDSet == {MaxRuleID + 1, MaxRuleID + 2}

\* the category IDs a RuleSpec names: none, one or two, in any order
CategoryIDLists ==
    {<<>>} \cup {<<a>> : a \in CategoryIDSet}
           \cup {x \in CategoryIDSet \X CategoryIDSet : x[1] # x[2]}

\* the RuleSpecs of rule 2 and rule 1, in this order, with their categories
ListingRuleSpecs(first, second) ==
    <<[ID |-> 2, CategoryIDs |-> first, Handler |-> HandlerFor("one", 2)],
      [ID |-> 1, CategoryIDs |-> second, Handler |-> HandlerFor("one", 1)]>>

\* the CategorySpecs with the IDs, in the order of the IDs given
CategorySpecsFor(ids) == [i \in 1..Len(ids) |-> [ID |-> ids[i]]]

\* the Specs: every category is declared once, in some order, and named by
\* a rule, as validateSpec asks
ListingSpecs ==
    {[Rules |-> ListingRuleSpecs(t[1], t[2]),
      Categories |-> CategorySpecsFor(t[3])] :
        t \in {u \in CategoryIDLists \X {<<>>, <<MaxRuleID + 1>>}
                         \X CategoryIDLists :
                   SeqToSet(u[3]) = SeqToSet(u[1]) \cup SeqToSet(u[2])}}

\* the state before the first call, but for the provider's faults
ListingStart ==
    /\ lsProvider \in {newCheckServiceHandlerForSpec(spec) : spec \in ListingSpecs}
    /\ lsClient \in {newClient(cache) : cache \in BOOLEAN}
    /\ lsRulesLock = RWFree
    /\ lsCategoriesLock = RWFree
    /\ lsCallers = [g \in ListCallers |-> IdleCaller]
    /\ lsCalls = 0
    /\ lsFetches = [rules |-> 0, categories |-> 0]
    /\ CollectorStart
    /\ CheckUnused
    /\ RequestUnused
    /\ PagingUnused
    /\ ChunkedUnused
    /\ ValidateUnused

InitListing == ListingStart /\ lsFaults = NoFaults

\* the error of the provider call that fails as the n-th fetch of a listing
errUnavailable(n) ==
    IF n = 1 THEN "plugin unavailable at the first fetch"
    ELSE "plugin unavailable at a later fetch"

\* what the paging loop of listRulesUncached comes to when its n-th run is
\* to fail: checkServiceClient.ListRules returns the error at the first page
listRulesFetched(c, n, faults) ==
    IF faults > 0
    THEN [protoRules |-> <<>>, err |-> PlainError(errUnavailable(n)), calls |-> 1]
    ELSE listRulesPages(c, 0, <<>>, 0)

\* listCategoriesUncached likewise
listCategoriesFetched(c, n, faults) ==
    IF faults > 0
    THEN [categories |-> <<>>, err |-> PlainError(errUnavailable(n)), calls |-> 1]
    ELSE listCategoriesUncached(c)

\* one fault fewer is to come
faultsLeft(faults) == IF faults > 0 THEN faults - 1 ELSE 0

\* a faulty variant of rulesCached: a cached error does not count
rulesCachedForgetsError(client) == Len(client.cachedRules) > 0

\* len(c.cachedRules) > 0 || c.cachedRulesErr != nil
rulesCached(client) ==
    Len(client.cachedRules) > 0 \/ client.cachedRulesErr # NoError

\* len(c.cachedCategories) > 0 || c.cachedCategoriesErr != nil
categoriesCached(client) ==
    Len(client.cachedCategories) > 0 \/ client.cachedCategoriesErr # NoError

\* a faulty variant of categoriesEntry: with the cache, ListCategories
\* starts by taking rulesLock
categoriesEntryTakesRulesLock(client) ==
    IF client.cacheRulesAndCategories THEN "rulesRLock" ELSE "categoriesFetch"

\* where ListCategories starts: at the RLock with the cache, at
\* listCategoriesUncached without
categoriesEntry(client) ==
    IF client.cacheRulesAndCategories THEN "categoriesRLock" ELSE "categoriesFetch"

\* caller g calls ListRules: with the cache the call goes on to
\* rulesLock.RLock(), without to listRulesUncached
ListRulesCall(g) ==
    /\ lsCallers[g].pc = "idle"
    /\ lsCalls < MaxListCalls
    /\ lsCalls' = lsCalls + 1
    /\ lsCallers' = [lsCallers EXCEPT ![g] =
           [IdleCaller EXCEPT
               !.op = "rules",
               !.pc = IF lsClient.cacheRulesAndCategories
                      THEN "rulesRLock" ELSE "rulesFetch"]]
    /\ UNCHANGED <<lsProvider, lsClient, lsRulesLock, lsCategoriesLock, lsFetches,
                 lsFaults>>
    /\ UNCHANGED otherThanListing

\* c.rulesLock.RLock()
ListRulesRLock(g) ==
    /\ lsCallers[g].pc = "rulesRLock"
    /\ CanRLockRW(lsRulesLock)
    /\ lsRulesLock' = [lsRulesLock EXCEPT !.readers = @ \cup {g}]
    /\ lsCallers' = [lsCallers EXCEPT ![g].pc = "rulesCheck"]
    /\ UNCHANGED <<lsProvider, lsClient, lsCategoriesLock, lsCalls, lsFetches, lsFaults>>
    /\ UNCHANGED otherThanListing

\* the test under the read lock: the cached value is returned, or the read
\* lock is given up for the write lock
ListRulesCheck(g) ==
    /\ lsCallers[g].pc = "rulesCheck"
    /\ lsRulesLock' = [lsRulesLock EXCEPT !.readers = @ \ {g}]
    /\ lsCallers' = [lsCallers EXCEPT ![g] =
           IF rulesCached(lsClient)
           THEN [@ EXCEPT !.pc = "idle",
                          !.result = RulesResult(lsClient.cachedRules,
                                                 lsClient.cachedRulesErr)]
           ELSE [@ EXCEPT !.pc = "rulesLock"]]
    /\ UNCHANGED <<lsProvider, lsClient, lsCategoriesLock, lsCalls, lsFetches, lsFaults>>
    /\ UNCHANGED otherThanListing

\* c.rulesLock.Lock() is called: later RLock calls wait from now on
ListRulesLock(g) ==
    /\ lsCallers[g].pc = "rulesLock"
    /\ CanLockRW(lsRulesLock)
    /\ lsRulesLock' = [lsRulesLock EXCEPT !.pending = g]
    /\ lsCallers' = [lsCallers EXCEPT ![g].pc = "rulesLocked"]
    /\ UNCHANGED <<lsProvider, lsClient, lsCategoriesLock, lsCalls, lsFetches, lsFaults>>
    /\ UNCHANGED otherThanListing

\* c.rulesLock.Lock() returns
ListRulesLocked(g) ==
    /\ lsCallers[g].pc = "rulesLocked"
    /\ CanLockedRW(lsRulesLock, g)
    /\ lsRulesLock' = [lsRulesLock EXCEPT !.writer = g, !.pending = 0]
    /\ lsCallers' = [lsCallers EXCEPT ![g].pc = "rulesFetch"]
    /\ UNCHANGED <<lsProvider, lsClient, lsCategoriesLock, lsCalls, lsFetches, lsFaults>>
    /\ UNCHANGED otherThanListing

\* with the cache, the test under the write lock, which returns the cached
\* value when there is one; then the paging loop of listRulesUncached, after
\* which the call goes on to c.ListCategories
ListRulesFetch(g) ==
    /\ lsCallers[g].pc = "rulesFetch"
    /\ IF lsClient.cacheRulesAndCategories /\ rulesCached(lsClient)
       THEN /\ lsRulesLock' = RWFree
            /\ lsCallers' = [lsCallers EXCEPT
                   ![g].pc = "idle",
                   ![g].result = RulesResult(lsClient.cachedRules,
                                             lsClient.cachedRulesErr)]
            /\ UNCHANGED <<lsClient, lsFetches, lsFaults>>
       ELSE \E pages \in {listRulesFetched(lsProvider, lsFetches.rules + 1,
                                             lsFaults.rules)} :
                /\ lsFetches' = [lsFetches EXCEPT !.rules = @ + 1]
                /\ lsFaults' = [lsFaults EXCEPT !.rules = faultsLeft(@)]
                /\ IF pages.err # NoError
                   THEN /\ lsClient' =
                               IF lsClient.cacheRulesAndCategories
                               THEN [lsClient EXCEPT !.cachedRules = <<>>,
                                                     !.cachedRulesErr = pages.err]
                               ELSE lsClient
                        /\ lsRulesLock' = RWFree
                        /\ lsCallers' = [lsCallers EXCEPT
                               ![g].pc = "idle",
                               ![g].result = RulesResult(<<>>, pages.err)]
                   ELSE /\ lsCallers' = [lsCallers EXCEPT
                               ![g].pc = categoriesEntry(lsClient),
                               ![g].protoRules = pages.protoRules]
                        /\ UNCHANGED <<lsClient, lsRulesLock>>
    /\ UNCHANGED <<lsProvider, lsCategoriesLock, lsCalls>>
    /\ UNCHANGED otherThanListing

\* the rest of listRulesUncached, with what c.ListCategories returned: the
\* Rules are made, validated and sorted; with the cache they are stored, the
\* write lock is given up and the cached value is returned
ListRulesMap(g) ==
    /\ lsCallers[g].pc = "rulesMap"
    /\ \E listing \in {listRulesListed(
                          [protoRules |-> lsCallers[g].protoRules,
                           err |-> NoError, calls |-> 0],
                          lsCallers[g].listed)} :
           /\ lsClient' =
                  IF lsClient.cacheRulesAndCategories
                  THEN [lsClient EXCEPT !.cachedRules = listing.rules,
                                        !.cachedRulesErr = listing.err]
                  ELSE lsClient
           /\ lsCallers' = [lsCallers EXCEPT
                  ![g].pc = "idle",
                  ![g].protoRules = <<>>,
                  ![g].listed = NoListResult,
                  ![g].result = RulesResult(listing.rules, listing.err)]
    /\ lsRulesLock' = RWFree
    /\ UNCHANGED <<lsProvider, lsCategoriesLock, lsCalls, lsFetches, lsFaults>>
    /\ UNCHANGED otherThanListing

\* caller g calls ListCategories
ListCategoriesCall(g) ==
    /\ lsCallers[g].pc = "idle"
    /\ lsCalls < MaxListCalls
    /\ lsCalls' = lsCalls + 1
    /\ lsCallers' = [lsCallers EXCEPT ![g] =
           [IdleCaller EXCEPT !.op = "categories",
                              !.pc = categoriesEntry(lsClient)]]
    /\ UNCHANGED <<lsProvider, lsClient, lsRulesLock, lsCategoriesLock, lsFetches,
                 lsFaults>>
    /\ UNCHANGED otherThanListing

\* ListCategories returns to its caller: to the caller of the Client, or to
\* listRulesUncached
categoriesReturned(caller, categories, err) ==
    IF caller.op = "categories"
    THEN [caller EXCEPT !.pc = "idle",
                        !.result = CategoriesResult(categories, err)]
    ELSE [caller EXCEPT !.pc = "rulesMap",
                        !.listed = CategoriesResult(categories, err)]

\* c.categoriesLock.RLock()
ListCategoriesRLock(g) ==
    /\ lsCallers[g].pc = "categoriesRLock"
    /\ CanRLockRW(lsCategoriesLock)
    /\ lsCategoriesLock' = [lsCategoriesLock EXCEPT !.readers = @ \cup {g}]
    /\ lsCallers' = [lsCallers EXCEPT ![g].pc = "categoriesCheck"]
    /\ UNCHANGED <<lsProvider, lsClient, lsRulesLock, lsCalls, lsFetches, lsFaults>>
    /\ UNCHANGED otherThanListing

\* the test under the read lock
ListCategoriesCheck(g) ==
    /\ lsCallers[g].pc = "categoriesCheck"
    /\ lsCategoriesLock' = [lsCategoriesLock EXCEPT !.readers = @ \ {g}]
    /\ lsCallers' = [lsCallers EXCEPT ![g] =
           IF categoriesCached(lsClient)
           THEN categoriesReturned(@, lsClient.cachedCategories,
                                   lsClient.cachedCategoriesErr)
           ELSE [@ EXCEPT !.pc = "categoriesLock"]]
    /\ UNCHANGED <<lsProvider, lsClient, lsRulesLock, lsCalls, lsFetches, lsFaults>>
    /\ UNCHANGED otherThanListing

\* c.categoriesLock.Lock() is called
ListCategoriesLock(g) ==
    /\ lsCallers[g].pc = "categoriesLock"
    /\ CanLockRW(lsCategoriesLock)
    /\ lsCategoriesLock' = [lsCategoriesLock EXCEPT !.pending = g]
    /\ lsCallers' = [lsCallers EXCEPT ![g].pc = "categoriesLocked"]
    /\ UNCHANGED <<lsProvider, lsClient, lsRulesLock, lsCalls, lsFetches, lsFaults>>
    /\ UNCHANGED otherThanListing

\* c.categoriesLock.Lock() returns
ListCategoriesLocked(g) ==
    /\ lsCallers[g].pc = "categoriesLocked"
    /\ CanLockedRW(lsCategoriesLock, g)
    /\ lsCategoriesLock' = [lsCategoriesLock EXCEPT !.writer = g, !.pending = 0]
    /\ lsCallers' = [lsCallers EXCEPT ![g].pc = "categoriesFetch"]
    /\ UNCHANGED <<lsProvider, lsClient, lsRulesLock, lsCalls, lsFetches, lsFaults>>
    /\ UNCHANGED otherThanListing

\* with the cache, the test under the write lock; then
\* listCategoriesUncached, whose result is stored with the cache; the write
\* lock is given up and the call returns
ListCategoriesFetch(g) ==
    /\ lsCallers[g].pc = "categoriesFetch"
    /\ IF lsClient.cacheRulesAndCategories /\ categoriesCached(lsClient)
       THEN /\ lsCallers' = [lsCallers EXCEPT ![g] =
                   categoriesReturned(@, lsClient.cachedCategories,
                                      lsClient.cachedCategoriesErr)]
            /\ UNCHANGED <<lsClient, lsFetches, lsFaults>>
       ELSE \E listed \in {listCategoriesFetched(
                                lsProvider, lsFetches.categories + 1,
                                lsFaults.categories)} :
                /\ lsFetches' = [lsFetches EXCEPT !.categories = @ + 1]
                /\ lsFaults' = [lsFaults EXCEPT !.categories = faultsLeft(@)]
                /\ lsClient' =
                       IF lsClient.cacheRulesAndCategories
                       THEN [lsClient EXCEPT
                                !.cachedCategories = listed.categories,
                                !.cachedCategoriesErr = listed.err]
                       ELSE lsClient
                /\ lsCallers' = [lsCallers EXCEPT ![g] =
                       categoriesReturned(@, listed.categories, listed.err)]
    /\ lsCategoriesLock' = RWFree
    /\ UNCHANGED <<lsProvider, lsRulesLock, lsCalls>>
    /\ UNCHANGED otherThanListing

NextListing ==
    \E g \in ListCallers :
        \/ ListRulesCall(g)
        \/ ListRulesRLock(g)
        \/ ListRulesCheck(g)
        \/ ListRulesLock(g)
        \/ ListRulesLocked(g)
        \/ ListRulesFetch(g)
        \/ ListRulesMap(g)
        \/ ListCategoriesCall(g)
        \/ ListCategoriesRLock(g)
        \/ ListCategoriesCheck(g)
        \/ ListCategoriesLock(g)
        \/ ListCategoriesLocked(g)
        \/ ListCategoriesFetch(g)

SpecListing == InitListing /\ [][NextListing]_vars

(***************************************************************************)
(* Properties of the listings under SpecListing.                           *)
(***************************************************************************)
\* the IDs of the categories the Spec declares, in the Spec's order
DeclaredCategoryIDs ==
    [i \in 1..Len(lsProvider.categorySpecs) |-> lsProvider.categorySpecs[i].ID]

\* the RuleSpec of the rule with the id
RuleSpecOf(id) == lsProvider.ruleIDToRuleSpec[id]

\* the IDs of a list of rules or of categories
IDsOf(categories) == [i \in 1..Len(categories) |-> categories[i].ID]

\* the categories that ListCategories is to return: the declared ones, once
\* each, ascending
IsCategoryListing(categories) ==
    /\ Len(categories) = Len(DeclaredCategoryIDs)
    /\ SeqToSet(IDsOf(categories)) = SeqToSet(DeclaredCategoryIDs)
    /\ \A i \in 1..(Len(categories) - 1) : categories[i].ID < categories[i + 1].ID

\* C15: every ListCategories call returns the declared categories once each
\* in ascending order of ID, and every ListRules call returns the rules
\* ascending, each with the categories its RuleSpec names, in the order the
\* RuleSpec names them (none for a RuleSpec that names none), each a
\* category of the ListCategories result; with the cache and without.
C15_RulesCarryTheirCategories ==
    \A g \in ListCallers :
        /\ lsCallers[g].result.op = "categories" =>
               /\ lsCallers[g].result.err = NoError
               /\ IsCategoryListing(lsCallers[g].result.categories)
        /\ lsCallers[g].result.op = "rules" =>
               /\ lsCallers[g].result.err = NoError
               /\ IDsOf(lsCallers[g].result.rules)
                      = sortStrings(DOMAIN lsProvider.ruleIDToRuleSpec)
               /\ \A i \in 1..Len(lsCallers[g].result.rules) :
                      LET r == lsCallers[g].result.rules[i]
                      IN  /\ IDsOf(r.Categories)
                                 = RuleSpecOf(r.ID).CategoryIDs
                          /\ \A j \in 1..Len(r.Categories) :
                                 r.Categories[j]
                                     \in SeqToSet(listCategoriesUncached(
                                                      lsProvider).categories)

\* with the cache: the categories are declared in descending order, rule 2
\* names both in descending order and rule 1 names one; one caller got the
\* rules and the other the categories
C15_Witness ==
    /\ lsClient.cacheRulesAndCategories
    /\ DeclaredCategoryIDs = <<MaxRuleID + 2, MaxRuleID + 1>>
    /\ lsCallers[1].result.op = "rules"
    /\ Len(lsCallers[1].result.rules) = 2
    /\ IDsOf(lsCallers[1].result.rules[1].Categories) = <<MaxRuleID + 1>>
    /\ IDsOf(lsCallers[1].result.rules[2].Categories)
           = <<MaxRuleID + 2, MaxRuleID + 1>>
    /\ lsCallers[2].result.op = "categories"
    /\ IDsOf(lsCallers[2].result.categories)
           = <<MaxRuleID + 1, MaxRuleID + 2>>

\* the same without the cache, and a rule without categories
C15_WitnessUncached ==
    /\ ~lsClient.cacheRulesAndCategories
    /\ lsCallers[1].result.op = "rules"
    /\ Len(lsCallers[1].result.rules) = 2
    /\ lsCallers[1].result.rules[1].Categories = <<>>
    /\ IDsOf(lsCallers[1].result.rules[2].Categories)
           = <<MaxRuleID + 2, MaxRuleID + 1>>
    /\ lsCallers[2].result.op = "categories"

\* C20: with the cache, the rules are fetched from the provider at most
\* once and the categories are fetched at most once, over all the calls.
C20_ListingFetchedAtMostOnce ==
    lsClient.cacheRulesAndCategories =>
        lsFetches.rules <= 1 /\ lsFetches.categories <= 1

\* with the cache, a listing that is fetched and is not empty is fetched once
C20_NonEmptyListingFetchedOnce ==
    lsClient.cacheRulesAndCategories =>
        /\ lsFetches.rules <= 1
        /\ Len(DeclaredCategoryIDs) > 0 => lsFetches.categories <= 1

\* the provider declares no category and two ListCategories calls have
\* returned: the empty listing was fetched twice
C20_EmptyListingFetchedTwice ==
    /\ lsClient.cacheRulesAndCategories
    /\ Len(DeclaredCategoryIDs) = 0
    /\ lsCalls = 2
    /\ \A g \in ListCallers :
           lsCallers[g].pc = "idle" /\ lsCallers[g].result.op = "categories"
    /\ lsFetches.categories = 2

(***************************************************************************)
(* SpecFaulty: the same callers and the same Client on a plugin whose      *)
(* first calls fail: of the next fetches of the rules and of the            *)
(* categories, up to MaxFaults each return an error, and the later ones     *)
(* succeed.                                                                 *)
(***************************************************************************)
Faults ==
    [rules : 0..MaxFaults, categories : 0..MaxFaults] \ {NoFaults}

InitFaulty == ListingStart /\ lsFaults \in Faults

SpecFaulty == InitFaulty /\ [][NextListing]_vars

\* the positions of a ListRules call before listRulesUncached is under way
BeforeRulesFetch ==
    {"idle", "rulesRLock", "rulesCheck", "rulesLock", "rulesLocked", "rulesFetch"}

\* caller g returns in this step
Returns(g) == lsCallers[g].pc # "idle" /\ lsCallers'[g].pc = "idle"

\* C21: with the cache, once a fetch of the rules has failed, the error stays
\* cached, the rules are not fetched again, every ListRules call that returns
\* returns that error without rules, and no ListRules call goes on to the
\* provider; once a fetch of the categories has failed, the same holds of
\* ListCategories; whether or not the plugin has become available.
C21_FailedFetchIsSticky ==
    [][/\ (lsClient.cacheRulesAndCategories /\ lsClient.cachedRulesErr # NoError) =>
              /\ lsClient'.cachedRulesErr = lsClient.cachedRulesErr
              /\ lsClient'.cachedRules = <<>>
              /\ lsFetches'.rules = lsFetches.rules
              /\ \A g \in ListCallers :
                     lsCallers'[g].op = "rules" =>
                         /\ lsCallers'[g].pc \in BeforeRulesFetch
                         /\ Returns(g) =>
                                lsCallers'[g].result
                                    = RulesResult(<<>>, lsClient.cachedRulesErr)
       /\ (lsClient.cacheRulesAndCategories
              /\ lsClient.cachedCategoriesErr # NoError) =>
              /\ lsClient'.cachedCategoriesErr = lsClient.cachedCategoriesErr
              /\ lsClient'.cachedCategories = <<>>
              /\ lsFetches'.categories = lsFetches.categories
              /\ \A g \in ListCallers :
                     (lsCallers'[g].op = "categories" /\ Returns(g)) =>
                         lsCallers'[g].result
                             = CategoriesResult(<<>>, lsClient.cachedCategoriesErr)
      ]_vars

\* the first fetch of the rules failed and the plugin has been available
\* since; three ListRules calls were made, the rules were fetched once and
\* both callers' last calls returned the error of the first fetch
C21_Witness ==
    /\ lsClient.cacheRulesAndCategories
    /\ lsFaults = NoFaults
    /\ lsCalls = MaxListCalls
    /\ lsFetches = [rules |-> 1, categories |-> 0]
    /\ lsClient.cachedRulesErr = PlainError(errUnavailable(1))
    /\ \A g \in ListCallers :
           /\ lsCallers[g].pc = "idle"
           /\ lsCallers[g].result
                  = RulesResult(<<>>, PlainError(errUnavailable(1)))

\* the same of the categories, and of the rules that failed with them
C21_WitnessCategories ==
    /\ lsClient.cacheRulesAndCategories
    /\ lsFaults = NoFaults
    /\ lsCalls = MaxListCalls
    /\ lsFetches = [rules |-> 1, categories |-> 1]
    /\ lsClient.cachedCategoriesErr = PlainError(errUnavailable(1))
    /\ lsClient.cachedRulesErr = PlainError(errUnavailable(1))
    /\ lsCallers[1].pc = "idle"
    /\ lsCallers[1].result
           = CategoriesResult(<<>>, PlainError(errUnavailable(1)))
    /\ lsCallers[2].pc = "idle"
    /\ lsCallers[2].result = RulesResult(<<>>, PlainError(errUnavailable(1)))

(***************************************************************************)
(* SpecListingFair: the callers of SpecListing and SpecFaulty, on a plugin *)
(* whose calls return (with the listing or an error), each caller          *)
(* scheduled again and again: a goroutine that can run does run.           *)
(***************************************************************************)
\* what caller g does once it is in a call
CallerStep(g) ==
    \/ ListRulesRLock(g)
    \/ ListRulesCheck(g)
    \/ ListRulesLock(g)
    \/ ListRulesLocked(g)
    \/ ListRulesFetch(g)
    \/ ListRulesMap(g)
    \/ ListCategoriesRLock(g)
    \/ ListCategoriesCheck(g)
    \/ ListCategoriesLock(g)
    \/ ListCategoriesLocked(g)
    \/ ListCategoriesFetch(g)

InitListingFair ==
    /\ ListingStart
    /\ lsClient.cacheRulesAndCategories
    /\ lsFaults \in [rules : 0..1, categories : 0..1]

SpecListingFair ==
    /\ InitListingFair
    /\ [][NextListing]_vars
    /\ \A g \in ListCallers : WF_vars(CallerStep(g))

\* caller g holds the lock, shared or exclusively, or its Lock call waits
HoldsRW(lock, g) == lock.writer = g \/ g \in lock.readers \/ lock.pending = g

\* caller g is in an RLock or Lock call on rulesLock
AcquiresRulesLock(g) == lsCallers[g].pc \in {"rulesRLock", "rulesLock", "rulesLocked"}

\* no caller takes rulesLock while it holds categoriesLock
LockOrdering ==
    \A g \in ListCallers :
        HoldsRW(lsCategoriesLock, g) => ~AcquiresRulesLock(g)

Busy(g) == lsCallers[g].pc # "idle"

\* when calls are under way, one of them can take a step
NoDeadlock ==
    (\E g \in ListCallers : Busy(g)) =>
        \E g \in ListCallers : Busy(g) /\ ENABLED CallerStep(g)

\* C22: with the cache, no caller is in an RLock or Lock call on rulesLock
\* while it holds categoriesLock; whatever ListRules and ListCategories calls
\* the callers make concurrently, with the cache or without, some call under
\* way can always take a step, and every call returns.
C22_LockOrderAndEveryCallReturns ==
    /\ [](LockOrdering /\ NoDeadlock)
    /\ \A g \in ListCallers : Busy(g) ~> ~Busy(g)

\* caller 1 is in ListRules and holds rulesLock exclusively; its Lock call on
\* categoriesLock waits for caller 2, which is in ListCategories and holds
\* categoriesLock shared
C22_Witness ==
    /\ lsClient.cacheRulesAndCategories
    /\ lsCallers[1].op = "rules"
    /\ lsRulesLock.writer = 1
    /\ lsCallers[1].pc = "categoriesLocked"
    /\ lsCategoriesLock.pending = 1
    /\ lsCallers[2].op = "categories"
    /\ lsCallers[2].pc = "categoriesCheck"
    /\ lsCategoriesLock.readers = {2}

(***************************************************************************)
(* Properties of the MultiClient's ListRules and Check under SpecCheck.    *)
(***************************************************************************)
\* the MultiClient has two or more delegates, all of which can be reached
ReachableDelegates ==
    /\ Len(clients) >= 2
    /\ \A k \in 1..Len(clients) : ~clients[k].unavailable

\* two of the delegates list a rule with the same ID
DelegatesOverlap ==
    /\ ReachableDelegates
    /\ \E j, k \in 1..Len(clients) :
           j # k /\ ListedIDs(j) \cap ListedIDs(k) # {}

MultiListRulesReturned == mc.pc = "done" /\ mc.op = "multiList"

\* no delegate's Check was called
NoDelegateChecked ==
    \A k \in 1..Len(clients) :
        calls[k].requests = <<>> /\ calls[k].protos = <<>>
            /\ calls[k].invoked = <<>>

\* C23: when two of the two or more delegates list a rule with the same ID,
\* the MultiClient's ListRules returns the duplicate-rule-ID error and no
\* rules, and its Check returns the same error and no Response, no
\* delegate's Check having been called.
C23_DuplicateRuleIDAcrossDelegates ==
    DelegatesOverlap =>
        /\ MultiListRulesReturned =>
               /\ lresult.err = PlainError(errDuplicateRuleIDs)
               /\ lresult.rules = <<>>
        /\ mc.op = "multi" =>
               /\ mc.pc = "done"
               /\ cresult = ErrorResult(PlainError(errDuplicateRuleIDs))
               /\ NoDelegateChecked

\* the delegates list rules 1, 2 and rules 2, 3, and ListRules has returned
C23_Witness ==
    /\ Len(clients) = 2
    /\ ListedIDs(1) = {1, 2}
    /\ ListedIDs(2) = {2, 3}
    /\ MultiListRulesReturned
    /\ lresult.err = PlainError(errDuplicateRuleIDs)
    /\ calls[1].listRules = 1
    /\ calls[2].listRules = 1

\* the same delegates, and Check has returned
C23_WitnessCheck ==
    /\ Len(clients) = 2
    /\ ListedIDs(1) = {1, 2}
    /\ ListedIDs(2) = {2, 3}
    /\ mc.op = "multi"
    /\ mc.pc = "done"
    /\ cresult = ErrorResult(PlainError(errDuplicateRuleIDs))

\* no two delegates list a rule with the same ID
DelegatesDisjoint ==
    /\ \A k \in 1..Len(clients) : ~clients[k].unavailable
    /\ \A j, k \in 1..Len(clients) :
           j # k => ListedIDs(j) \cap ListedIDs(k) = {}

\* the delegates in the opposite order
ReversedDelegates == [k \in 1..Len(clients) |-> clients[Len(clients) + 1 - k]]

\* C24: when no two delegates list a rule with the same ID, the MultiClient's
\* ListRules returns no error and the rules of all the delegates, each once,
\* in ascending order of rule ID, each as its delegate lists it; the
\* MultiClient over the same delegates in the opposite order returns the
\* same list.
C24_DisjointDelegatesListTheUnion ==
    (MultiListRulesReturned /\ DelegatesDisjoint) =>
        /\ lresult.err = NoError
        /\ IDsOf(lresult.rules)
               = sortStrings(UNION {ListedIDs(k) : k \in 1..Len(clients)})
        /\ \A i \in 1..Len(lresult.rules) :
               \E k \in 1..Len(clients) :
                   lresult.rules[i] \in SeqToSet(clientListRules(clients[k]).rules)
        /\ Len(clients) >= 2 =>
               getRulesAndChunkedRuleIDs(ReversedDelegates).rules = lresult.rules

\* the first delegate lists rules 3 and 2, registered in this order, the
\* second lists rule 1; ListRules returned rules 1, 2, 3
C24_Witness ==
    /\ MultiListRulesReturned
    /\ Len(clients) = 2
    /\ IDsOf(clients[1].ruleSpecs) = <<3, 2>>
    /\ IDsOf(clients[2].ruleSpecs) = <<1>>
    /\ lresult.err = NoError
    /\ IDsOf(lresult.rules) = <<1, 2, 3>>

\* the ListRules of delegate k's Client fails
ListFails(k) == clientListRules(clients[k]).err # NoError

SomeListFails == \E k \in 1..Len(clients) : ListFails(k)

\* the first delegate whose ListRules fails
FirstListFailure ==
    CHOOSE k \in 1..Len(clients) :
        ListFails(k) /\ \A j \in 1..(k - 1) : ~ListFails(j)

\* the delegates up to the one whose ListRules failed were listed once, the
\* later ones were not called
ListedUpToFailure ==
    \A k \in 1..Len(clients) :
        calls[k].listRules = IF k <= FirstListFailure THEN 1 ELSE 0

\* the Check of delegate k was called
Checked(k) == calls[k].requests # <<>>

\* what the Check of delegate k returned
DelegateChecked(k) == clientCheck(clients[k], calls[k].requests[1]).result

\* C25: over two or more delegates, when the ListRules of a delegate fails,
\* the MultiClient's ListRules and Check return the error of the first such
\* delegate and no rules or Response, the later delegates are not listed and
\* no delegate's Check is called; when the Check of a delegate fails, the
\* MultiClient's Check returns that error and no Response, and the Check of
\* no later delegate is called; a Check that returns a Response had no
\* failing delegate call.
C25_FirstDelegateFailureAborts ==
    Len(clients) >= 2 =>
        /\ (MultiListRulesReturned /\ SomeListFails) =>
               /\ lresult.rules = <<>>
               /\ lresult.err = clientListRules(clients[FirstListFailure]).err
               /\ ListedUpToFailure
        /\ (mc.op = "multi" /\ SomeListFails) =>
               /\ mc.pc = "done"
               /\ cresult
                      = ErrorResult(clientListRules(clients[FirstListFailure]).err)
               /\ ListedUpToFailure
               /\ NoDelegateChecked
        /\ (mc.op = "multi" /\ ~SomeListFails) =>
               \A k \in 1..Len(clients) :
                   (Checked(k) /\ ~DelegateChecked(k).ok) =>
                       /\ mc.pc = "done"
                       /\ cresult = ErrorResult(DelegateChecked(k).err)
                       /\ \A j \in (k + 1)..Len(clients) :
                              ~Checked(j) /\ calls[j].protos = <<>>
                                  /\ calls[j].invoked = <<>>
        /\ (mc.op = "multi" /\ mc.pc = "done" /\ cresult.ok) =>
               /\ ~SomeListFails
               /\ \A k \in 1..Len(clients) : Checked(k) /\ DelegateChecked(k).ok

\* the handler of rule 2 of the first delegate returned an error: Check
\* returned it, and the second delegate, which lists another rule, was
\* listed and its Check was not called
C25_Witness ==
    /\ Len(clients) = 2
    /\ ~SomeListFails
    /\ ListedIDs(1) = {2}
    /\ ListedIDs(2) = {3}
    /\ mc.op = "multi"
    /\ mc.pc = "done"
    /\ Checked(1)
    /\ cresult = ErrorResult(PlainError(errHandlerFailed))
    /\ calls[2].listRules = 1
    /\ ~Checked(2)

\* the first delegate cannot be reached: ListRules returned its error and
\* the second delegate was not called
C25_WitnessListRules ==
    /\ Len(clients) = 2
    /\ clients[1].unavailable
    /\ MultiListRulesReturned
    /\ lresult.err = PlainError(errPluginUnavailable)
    /\ calls[1].listRules = 1
    /\ calls[2].listRules = 0

\* the second delegate cannot be reached: Check returned its error after
\* both delegates were listed
C25_WitnessCheck ==
    /\ Len(clients) = 2
    /\ clients[2].unavailable
    /\ mc.op = "multi"
    /\ cresult = ErrorResult(PlainError(errPluginUnavailable))
    /\ calls[1].listRules = 1
    /\ calls[2].listRules = 1
    /\ NoDelegateChecked


(***************************************************************************)
(* The validation of a Spec: validateSpec (spec.go), validateRuleSpecs and *)
(* validateRuleSpec (rule_spec.go), validateCategorySpecs and              *)
(* validateCategorySpec (category_spec.go), the duplicate-ID checks         *)
(* (rule.go).                                                               *)
(*                                                                         *)
(* A RuleSpec is here [ID, CategoryIDs, IsDefault, Purpose, Type,          *)
(* Deprecated, ReplacementIDs, Handler], a CategorySpec [ID, Purpose,      *)
(* Deprecated, ReplacementIDs]; rule IDs and category IDs are strings of   *)
(* one namespace in the code and naturals of one namespace here.  An error *)
(* is [type, msg, ids]: type is the Go type of the error value, ids the    *)
(* IDs the error names.                                                    *)
(***************************************************************************)
NoValidateError == [type |-> "nil", msg |-> "", ids |-> <<>>]

\* errors.New, and fmt.Errorf with a format that has no %w verb
errorsNew(msg, ids) == [type |-> "errorString", msg |-> msg, ids |-> ids]

newDuplicateRuleIDError(duplicateIDs) ==
    [type |-> "duplicateRuleIDError", msg |-> "duplicate rule IDs",
     ids |-> duplicateIDs]

newDuplicateCategoryIDError(duplicateIDs) ==
    [type |-> "duplicateCategoryIDError", msg |-> "duplicate category IDs",
     ids |-> duplicateIDs]

newDuplicateRuleOrCategoryIDError(duplicateIDs) ==
    [type |-> "duplicateRuleOrCategoryIDError",
     msg |-> "duplicate rule or category IDs", ids |-> duplicateIDs]

\* newValidateRuleSpecError and newValidateRuleSpecErrorf
newValidateRuleSpecErrorf(msg, ids) ==
    [type |-> "validateRuleSpecError", msg |-> msg, ids |-> ids]

\* errors.As(err, &target) for a target of the named type: none of the error
\* types above has an Unwrap or an As method, so only the error's own type
\* is tried
errorsAs(err, targetType) == err.type = targetType

\* the IDs that idToCount counts more than once, after sort.Strings
duplicateIDsOf(ids) ==
    LET idToCount == [id \in SeqToSet(ids) |->
                         Cardinality({i \in 1..Len(ids) : ids[i] = id})]
    IN  sortStrings({id \in SeqToSet(ids) : idToCount[id] > 1})

\* validateNoDuplicateRuleIDs with the error value it returns (the
\* validateNoDuplicateRuleIDs above keeps the message only)
validateNoDuplicateRuleIDsError(ids) ==
    IF Len(duplicateIDsOf(ids)) > 0
    THEN newDuplicateRuleIDError(duplicateIDsOf(ids))
    ELSE NoValidateError

validateNoDuplicateCategoryIDs(ids) ==
    IF Len(duplicateIDsOf(ids)) > 0
    THEN newDuplicateCategoryIDError(duplicateIDsOf(ids))
    ELSE NoValidateError

validateNoDuplicateRuleOrCategoryIDs(ids) ==
    IF Len(duplicateIDsOf(ids)) > 0
    THEN newDuplicateRuleOrCategoryIDError(duplicateIDsOf(ids))
    ELSE NoValidateError

\* the first error of a loop that returns at the first error
firstError(errs) ==
    IF \E i \in 1..Len(errs) : errs[i] # NoValidateError
    THEN errs[CHOOSE i \in 1..Len(errs) :
                  /\ errs[i] # NoValidateError
                  /\ \A j \in 1..(i - 1) : errs[j] = NoValidateError]
    ELSE NoValidateError

\* the RuleTypes that ruleTypeToProtoRuleType has a key for; the zero
\* RuleType is ""
ruleTypeToProtoRuleType == {"RuleTypeLint", "RuleTypeBreaking"}

\* xslices.Map(spec.Rules, ID) and xslices.Map(spec.Categories, ID)
SpecIDs(specs) == [i \in 1..Len(specs) |-> specs[i].ID]

\* the map the loops "idToSpec[spec.ID] = spec" build: a later spec of an ID
\* replaces an earlier one
idToSpecOf(specs) ==
    [id \in SeqToSet(SpecIDs(specs)) |->
        specs[CHOOSE i \in 1..Len(specs) :
                  /\ specs[i].ID = id
                  /\ \A j \in (i + 1)..Len(specs) : specs[j].ID # id]]

\* a faulty variant of replacementRuleError that looks a replacement up and
\* does not ask whether it is deprecated
replacementRuleErrorFoundOnly(ruleSpec, ruleIDToRuleSpec) ==
    IF \E i \in 1..Len(ruleSpec.ReplacementIDs) :
           ruleSpec.ReplacementIDs[i] \notin DOMAIN ruleIDToRuleSpec
    THEN newValidateRuleSpecErrorf("specified replacement ID which was not found",
                                   <<ruleSpec.ID>>)
    ELSE NoValidateError

\* the loop over the replacement IDs of a RuleSpec (rule_spec.go:124-132)
replacementRuleError(ruleSpec, ruleIDToRuleSpec) ==
    firstError([i \in 1..Len(ruleSpec.ReplacementIDs) |->
        IF ruleSpec.ReplacementIDs[i] \notin DOMAIN ruleIDToRuleSpec
        THEN newValidateRuleSpecErrorf("specified replacement ID which was not found",
                                       <<ruleSpec.ID, ruleSpec.ReplacementIDs[i]>>)
        ELSE IF ruleIDToRuleSpec[ruleSpec.ReplacementIDs[i]].Deprecated
        THEN newValidateRuleSpecErrorf("specified replacement ID which also deprecated",
                                       <<ruleSpec.ID, ruleSpec.ReplacementIDs[i]>>)
        ELSE NoValidateError])

\* a faulty variant of validateRuleSpecIn that does not look the RuleSpec's
\* category IDs up
validateRuleSpecInAnyCategory(ruleSpec, ruleIDToRuleSpec, categoryIDMap) ==
    IF Len(ruleSpec.ReplacementIDs) > 0 /\ ~ruleSpec.Deprecated
    THEN newValidateRuleSpecErrorf("had ReplacementIDs but Deprecated was false",
                                   <<ruleSpec.ID>>)
    ELSE replacementRuleError(ruleSpec, ruleIDToRuleSpec)

\* validateRuleSpec of rule_spec.go, which is given the RuleSpecs by ID and
\* the set of the declared category IDs
validateRuleSpecIn(ruleSpec, ruleIDToRuleSpec, categoryIDMap) ==
    LET noCategory == firstError([i \in 1..Len(ruleSpec.CategoryIDs) |->
            IF ruleSpec.CategoryIDs[i] \notin categoryIDMap
            THEN newValidateRuleSpecErrorf("no category for ID",
                                           <<ruleSpec.CategoryIDs[i]>>)
            ELSE NoValidateError])
    IN  IF noCategory # NoValidateError THEN noCategory
        ELSE IF ruleSpec.Purpose = ""
        THEN newValidateRuleSpecErrorf("Purpose is not set for ID", <<ruleSpec.ID>>)
        ELSE IF ruleSpec.Type = ""
        THEN newValidateRuleSpecErrorf("Type is not set for ID", <<ruleSpec.ID>>)
        ELSE IF ruleSpec.Type \notin ruleTypeToProtoRuleType
        THEN newValidateRuleSpecErrorf("Type is unknown", <<ruleSpec.ID>>)
        ELSE IF ruleSpec.Handler = Nil
        THEN newValidateRuleSpecErrorf("Handler is not set for ID", <<ruleSpec.ID>>)
        ELSE IF Len(ruleSpec.ReplacementIDs) > 0 /\ ~ruleSpec.Deprecated
        THEN newValidateRuleSpecErrorf("had ReplacementIDs but Deprecated was false",
                                       <<ruleSpec.ID>>)
        ELSE replacementRuleError(ruleSpec, ruleIDToRuleSpec)

validateRuleSpecs(ruleSpecs, categoryIDMap) ==
    IF validateNoDuplicateRuleIDsError(SpecIDs(ruleSpecs)) # NoValidateError
    THEN validateNoDuplicateRuleIDsError(SpecIDs(ruleSpecs))
    ELSE IF \E i \in 1..Len(ruleSpecs) : ruleSpecs[i].ID = 0
    THEN newValidateRuleSpecErrorf("ID is empty", <<>>)
    ELSE firstError([i \in 1..Len(ruleSpecs) |->
             validateRuleSpecIn(ruleSpecs[i], idToSpecOf(ruleSpecs), categoryIDMap)])

\* a faulty variant of validateCategorySpecIn that wants a replacement of
\* every deprecated CategorySpec
validateCategorySpecInWantsReplacement(categorySpec, categoryIDToCategorySpec) ==
    IF categorySpec.Deprecated = (Len(categorySpec.ReplacementIDs) = 0)
    THEN errorsNew("CategorySpec.Deprecated and CategorySpec.ReplacementIDs differ",
                   <<categorySpec.ID>>)
    ELSE NoValidateError

\* validateCategorySpec of category_spec.go, which is given the
\* CategorySpecs by ID
validateCategorySpecIn(categorySpec, categoryIDToCategorySpec) ==
    IF categorySpec.Purpose = ""
    THEN errorsNew("CategorySpec.Purpose is not set for ID", <<categorySpec.ID>>)
    ELSE IF Len(categorySpec.ReplacementIDs) > 0 /\ ~categorySpec.Deprecated
    THEN errorsNew("CategorySpec.ReplacementIDs had values but Deprecated was false",
                   categorySpec.ReplacementIDs)
    ELSE firstError([i \in 1..Len(categorySpec.ReplacementIDs) |->
        IF categorySpec.ReplacementIDs[i] \notin DOMAIN categoryIDToCategorySpec
        THEN errorsNew("CategorySpec specified replacement ID which was not found",
                       <<categorySpec.ID, categorySpec.ReplacementIDs[i]>>)
        ELSE IF categoryIDToCategorySpec[categorySpec.ReplacementIDs[i]].Deprecated
        THEN errorsNew("Deprecated CategorySpec specified replacement ID which also deprecated",
                       <<categorySpec.ID, categorySpec.ReplacementIDs[i]>>)
        ELSE NoValidateError])

\* the category IDs that some RuleSpec names
categoryIDForRulesMapOf(ruleSpecs) ==
    UNION {SeqToSet(ruleSpecs[i].CategoryIDs) : i \in 1..Len(ruleSpecs)}

\* the body of the loop over the CategorySpecs, in validateCategorySpecs
\* (category_spec.go:75-82) and in validateSpec (spec.go:83-90)
categorySpecError(categorySpec, categoryIDToCategorySpec, categoryIDForRulesMap) ==
    IF validateCategorySpecIn(categorySpec, categoryIDToCategorySpec) # NoValidateError
    THEN validateCategorySpecIn(categorySpec, categoryIDToCategorySpec)
    ELSE IF categorySpec.ID \notin categoryIDForRulesMap
    THEN errorsNew("no Rule has a Category ID of", <<categorySpec.ID>>)
    ELSE NoValidateError

validateCategorySpecs(categorySpecs, ruleSpecs) ==
    IF validateNoDuplicateCategoryIDs(SpecIDs(categorySpecs)) # NoValidateError
    THEN validateNoDuplicateCategoryIDs(SpecIDs(categorySpecs))
    ELSE IF \E i \in 1..Len(categorySpecs) : categorySpecs[i].ID = 0
    THEN errorsNew("CategorySpec.ID is empty", <<>>)
    ELSE firstError([i \in 1..Len(categorySpecs) |->
             categorySpecError(categorySpecs[i], idToSpecOf(categorySpecs),
                               categoryIDForRulesMapOf(ruleSpecs))])

\* the loop over the RuleSpecs of validateSpec (spec.go:75-82): the first
\* error of a RuleSpec
validateSpecRules(spec, categoryIDMap) ==
    firstError([i \in 1..Len(spec.Rules) |->
        validateRuleSpecIn(spec.Rules[i], idToSpecOf(spec.Rules), categoryIDMap)])

\* the loop over the CategorySpecs of validateSpec (spec.go:83-90)
validateSpecCategories(spec) ==
    firstError([i \in 1..Len(spec.Categories) |->
        categorySpecError(spec.Categories[i], idToSpecOf(spec.Categories),
                          categoryIDForRulesMapOf(spec.Rules))])

\* the checks of validateSpec in their order, the first that fails decides
validateSpecChecks(spec) ==
    <<IF Len(spec.Rules) = 0 THEN errorsNew("Spec.Rules is empty", <<>>)
      ELSE NoValidateError,
      validateNoDuplicateRuleIDsError(SpecIDs(spec.Rules)),
      validateNoDuplicateCategoryIDs(SpecIDs(spec.Categories)),
      validateNoDuplicateRuleOrCategoryIDs(SpecIDs(spec.Rules) \o SpecIDs(spec.Categories)),
      validateSpecRules(spec, SeqToSet(SpecIDs(spec.Categories))),
      validateSpecCategories(spec)>>

validateSpec(spec) == firstError(validateSpecChecks(spec))

\* the Rule a provider lists for a RuleSpec (ruleSpecToRule, rule.toProto):
\* the flags and the replacement IDs are those of the RuleSpec
ruleSpecToProtoRule(ruleSpec) ==
    [id |-> ruleSpec.ID, categoryIds |-> ruleSpec.CategoryIDs,
     default |-> ruleSpec.IsDefault, deprecated |-> ruleSpec.Deprecated,
     replacementIds |-> ruleSpec.ReplacementIDs]

(***************************************************************************)
(* SpecValidate: a Spec is given; validateSpec, validateRuleSpecs and      *)
(* validateCategorySpecs are applied to it, and a Spec that validateSpec   *)
(* accepts makes a provider that lists its rules.                          *)
(***************************************************************************)
\* the IDs of the RuleSpecs and of the CategorySpecs given: one ID is both
RuleSpecIDs == {1, 2}
CategorySpecIDs == {2, 3}

\* CategoryIDs, IsDefault, Deprecated and ReplacementIDs of the RuleSpecs
\* given: a default rule, one in two categories, a deprecated rule in two
\* categories, a deprecated default rule, a deprecated rule replaced by rule
\* 1 or by something that is no rule, and a rule that has a replacement and
\* is not deprecated
RuleSpecShapes ==
    {<< <<>>, TRUE, FALSE, <<>> >>, << <<2, 3>>, TRUE, FALSE, <<>> >>,
     << <<2, 3>>, FALSE, TRUE, <<>> >>,
     << <<>>, TRUE, TRUE, <<>> >>, << <<>>, FALSE, TRUE, <<1>> >>,
     << <<>>, FALSE, TRUE, <<3>> >>, << <<>>, TRUE, FALSE, <<1>> >>}

RuleSpecsGiven ==
    {[ID |-> id, CategoryIDs |-> shape[1], IsDefault |-> shape[2],
      Purpose |-> "Checks.", Type |-> "RuleTypeLint", Deprecated |-> shape[3],
      ReplacementIDs |-> shape[4], Handler |-> "handler"] :
        id \in RuleSpecIDs, shape \in RuleSpecShapes}

\* Deprecated and ReplacementIDs of the CategorySpecs given
CategorySpecShapes ==
    {<<FALSE, <<>> >>, <<TRUE, <<>> >>, <<TRUE, <<3>> >>, <<FALSE, <<3>> >>,
     <<TRUE, <<1>> >>}

CategorySpecsGiven ==
    {[ID |-> id, Purpose |-> "Category.", Deprecated |-> shape[1],
      ReplacementIDs |-> shape[2]] :
        id \in CategorySpecIDs, shape \in CategorySpecShapes}

InitValidate ==
    /\ ValidateUnused
    /\ CollectorStart
    /\ CheckUnused
    /\ RequestUnused
    /\ PagingUnused
    /\ ChunkedUnused
    /\ ListingUnused

\* the plugin's author writes one more RuleSpec into Spec.Rules
AddRuleSpec ==
    /\ vdResult.pc = "given"
    /\ Len(vdSpec.Rules) + Len(vdSpec.Categories) < MaxSpecs
    /\ \E ruleSpec \in RuleSpecsGiven :
           vdSpec' = [vdSpec EXCEPT !.Rules = Append(@, ruleSpec)]
    /\ UNCHANGED vdResult
    /\ UNCHANGED otherThanValidate

\* the plugin's author writes one more CategorySpec into Spec.Categories
AddCategorySpec ==
    /\ vdResult.pc = "given"
    /\ Len(vdSpec.Rules) + Len(vdSpec.Categories) < MaxSpecs
    /\ \E categorySpec \in CategorySpecsGiven :
           vdSpec' = [vdSpec EXCEPT !.Categories = Append(@, categorySpec)]
    /\ UNCHANGED vdResult
    /\ UNCHANGED otherThanValidate

\* validateSpec(validator, spec)
ValidateSpec ==
    /\ vdResult.pc = "given"
    /\ vdResult' = [vdResult EXCEPT !.pc = "validateSpec",
                                    !.validateSpec = validateSpec(vdSpec)]
    /\ UNCHANGED vdSpec
    /\ UNCHANGED otherThanValidate

\* validateRuleSpecs(validator, spec.Rules, categoryIDMap)
ValidateRuleSpecs ==
    /\ vdResult.pc = "given"
    /\ vdResult' = [vdResult EXCEPT
           !.pc = "validateRuleSpecs",
           !.validateRuleSpecs =
               validateRuleSpecs(vdSpec.Rules, SeqToSet(SpecIDs(vdSpec.Categories)))]
    /\ UNCHANGED vdSpec
    /\ UNCHANGED otherThanValidate

\* validateCategorySpecs(validator, spec.Categories, spec.Rules)
ValidateCategorySpecs ==
    /\ vdResult.pc = "given"
    /\ vdResult' = [vdResult EXCEPT
           !.pc = "validateCategorySpecs",
           !.validateCategorySpecs =
               validateCategorySpecs(vdSpec.Categories, vdSpec.Rules)]
    /\ UNCHANGED vdSpec
    /\ UNCHANGED otherThanValidate

\* the provider of a Spec that validateSpec accepted lists its rules
ListValidatedRules ==
    /\ vdResult.pc = "validateSpec"
    /\ vdResult.validateSpec = NoValidateError
    /\ vdResult' = [vdResult EXCEPT !.pc = "listed",
                                    !.listed = Map(vdSpec.Rules, ruleSpecToProtoRule)]
    /\ UNCHANGED vdSpec
    /\ UNCHANGED otherThanValidate

NextValidate ==
    \/ AddRuleSpec
    \/ AddCategorySpec
    \/ ValidateSpec
    \/ ValidateRuleSpecs
    \/ ValidateCategorySpecs
    \/ ListValidatedRules

SpecValidate == InitValidate /\ [][NextValidate]_vars


(***************************************************************************)
(* Properties of the validation of a Spec.                                 *)
(***************************************************************************)
\* validateSpec has returned; what it returned
ValidateSpecReturned == vdResult.pc \in {"validateSpec", "listed"}

ValidateSpecError == vdResult.validateSpec

\* two RuleSpecs share an ID / two CategorySpecs do / a RuleSpec and a
\* CategorySpec do
RuleSpecsShareID ==
    \E i, j \in 1..Len(vdSpec.Rules) :
        i # j /\ vdSpec.Rules[i].ID = vdSpec.Rules[j].ID

CategorySpecsShareID ==
    \E i, j \in 1..Len(vdSpec.Categories) :
        i # j /\ vdSpec.Categories[i].ID = vdSpec.Categories[j].ID

RuleAndCategoryShareID ==
    \E i \in 1..Len(vdSpec.Rules) : \E j \in 1..Len(vdSpec.Categories) :
        vdSpec.Rules[i].ID = vdSpec.Categories[j].ID

SomeIDShared ==
    RuleSpecsShareID \/ CategorySpecsShareID \/ RuleAndCategoryShareID

\* the IDs the Spec declares a CategorySpec for / the category IDs its
\* RuleSpecs name
DeclaredCategorySpecIDs ==
    {vdSpec.Categories[j].ID : j \in 1..Len(vdSpec.Categories)}

NamedCategoryIDs ==
    UNION {{vdSpec.Rules[i].CategoryIDs[k] :
               k \in 1..Len(vdSpec.Rules[i].CategoryIDs)} :
           i \in 1..Len(vdSpec.Rules)}

\* some RuleSpec names a category ID that has no CategorySpec
SomeCategoryUndeclared == NamedCategoryIDs \ DeclaredCategorySpecIDs # {}

\* some CategorySpec is named by no RuleSpec
SomeCategoryUnnamed == DeclaredCategorySpecIDs \ NamedCategoryIDs # {}

IsDuplicateIDError(err) ==
    \/ errorsAs(err, "duplicateRuleIDError")
    \/ errorsAs(err, "duplicateCategoryIDError")
    \/ errorsAs(err, "duplicateRuleOrCategoryIDError")

\* C26: Spec validation fails with a duplicate-ID error whenever two
\* RuleSpecs share an ID, two CategorySpecs share an ID, or a RuleSpec and a
\* CategorySpec share an ID, and the collision of a rule with a category is
\* reported as the spec-level error (the validateSpecError the test asks
\* for with errors.As), also when no rule names the colliding category.
C26_SharedIDIsASpecLevelDuplicateIDError ==
    ValidateSpecReturned =>
        /\ SomeIDShared => IsDuplicateIDError(ValidateSpecError)
        /\ RuleAndCategoryShareID => errorsAs(ValidateSpecError, "validateSpecError")

\* What holds of C26: a Spec that has RuleSpecs and in which an ID is shared
\* fails with one of the three duplicate-ID errors, whatever else is wrong
\* with it, an unnamed category included.
C26_SharedIDOfSpecWithRulesIsADuplicateIDError ==
    (ValidateSpecReturned /\ Len(vdSpec.Rules) > 0 /\ SomeIDShared) =>
        IsDuplicateIDError(ValidateSpecError)

\* a rule and a category that no rule names share their ID, and validateSpec
\* has returned the duplicate-rule-or-category-ID error as it is
C26_CollisionWithUnnamedCategory ==
    /\ ValidateSpecReturned
    /\ RuleAndCategoryShareID
    /\ ~RuleSpecsShareID /\ ~CategorySpecsShareID
    /\ SomeCategoryUnnamed
    /\ ValidateSpecError = newDuplicateRuleOrCategoryIDError(<<2>>)

\* C27, as claimed: Spec validation fails with a rule-spec error whenever
\* some RuleSpec names a category ID for which the Spec declares no
\* CategorySpec.
C27_UndeclaredCategoryIsARuleSpecError ==
    (ValidateSpecReturned /\ SomeCategoryUndeclared) =>
        errorsAs(ValidateSpecError, "validateRuleSpecError")

\* C27, amended: Spec validation fails whenever some RuleSpec names a
\* category ID for which the Spec declares no CategorySpec: with a rule-spec
\* error when no two of the Spec's RuleSpecs and CategorySpecs share an ID,
\* and with a duplicate-ID error when some do.
C27_UndeclaredCategoryFailsAfterTheDuplicateIDChecks ==
    (ValidateSpecReturned /\ SomeCategoryUndeclared) =>
        IF SomeIDShared
        THEN IsDuplicateIDError(ValidateSpecError)
        ELSE errorsAs(ValidateSpecError, "validateRuleSpecError")

\* a rule names categories that are not declared, no ID is shared, and
\* validateSpec has returned the rule-spec error that names the category
C27_Witness ==
    /\ ValidateSpecReturned
    /\ SomeCategoryUndeclared
    /\ ~SomeIDShared
    /\ Len(vdSpec.Categories) > 0
    /\ ValidateSpecError = newValidateRuleSpecErrorf("no category for ID", <<2>>)

\* two rules share an ID, one of them names an undeclared category, and
\* validateSpec has returned the duplicate-rule-ID error
C27_WitnessSharedID ==
    /\ ValidateSpecReturned
    /\ SomeCategoryUndeclared
    /\ RuleSpecsShareID
    /\ errorsAs(ValidateSpecError, "duplicateRuleIDError")

\* C28: Spec validation fails with a category-spec error (the
\* validateCategorySpecError the test asks for with errors.As) whenever some
\* declared CategorySpec is named by no RuleSpec of the Spec.
C28_UnnamedCategoryIsACategorySpecError ==
    (ValidateSpecReturned /\ SomeCategoryUnnamed) =>
        errorsAs(ValidateSpecError, "validateCategorySpecError")

\* What holds of C28: validation fails whenever some declared CategorySpec
\* is named by no RuleSpec.
C28_UnnamedCategoryFails ==
    (ValidateSpecReturned /\ SomeCategoryUnnamed) =>
        ValidateSpecError # NoValidateError

\* a category that no rule names is all that is wrong with the Spec, and
\* validateSpec has returned an error of fmt.Errorf
C28_UnnamedCategoryIsAPlainError ==
    /\ ValidateSpecReturned
    /\ SomeCategoryUnnamed
    /\ ~SomeIDShared /\ ~SomeCategoryUndeclared
    /\ ValidateSpecError = errorsNew("no Rule has a Category ID of", <<3>>)

\* a spec (a RuleSpec among the RuleSpecs, a CategorySpec among the
\* CategorySpecs) has replacement IDs while it is not deprecated, or a
\* replacement ID that is not the ID of a spec of its kind, or one that is
\* the ID of a deprecated spec of its kind
BadReplacement(spec, specs) ==
    \/ Len(spec.ReplacementIDs) > 0 /\ ~spec.Deprecated
    \/ \E k \in 1..Len(spec.ReplacementIDs) :
           \/ \A j \in 1..Len(specs) : specs[j].ID # spec.ReplacementIDs[k]
           \/ \E j \in 1..Len(specs) :
                  /\ specs[j].ID = spec.ReplacementIDs[k]
                  /\ specs[j].Deprecated

SomeRuleReplacementBad ==
    \E i \in 1..Len(vdSpec.Rules) : BadReplacement(vdSpec.Rules[i], vdSpec.Rules)

SomeCategoryReplacementBad ==
    \E i \in 1..Len(vdSpec.Categories) :
        BadReplacement(vdSpec.Categories[i], vdSpec.Categories)

\* C29: validation fails for a RuleSpec or CategorySpec that has replacement
\* IDs while Deprecated is false, or one of whose replacement IDs is not the
\* ID of a declared spec of the same kind, or names a spec that is itself
\* deprecated: validateSpec fails for the Spec, validateRuleSpecs for its
\* RuleSpecs, validateCategorySpecs for its CategorySpecs.
C29_BadReplacementFails ==
    /\ (ValidateSpecReturned /\ (SomeRuleReplacementBad \/ SomeCategoryReplacementBad))
           => ValidateSpecError # NoValidateError
    /\ (vdResult.pc = "validateRuleSpecs" /\ SomeRuleReplacementBad)
           => vdResult.validateRuleSpecs # NoValidateError
    /\ (vdResult.pc = "validateCategorySpecs" /\ SomeCategoryReplacementBad)
           => vdResult.validateCategorySpecs # NoValidateError

\* nothing is wrong with the Spec's IDs and categories
IDsAndCategoriesFine ==
    /\ ~SomeIDShared
    /\ ~SomeCategoryUndeclared
    /\ ~SomeCategoryUnnamed

\* a deprecated rule is replaced by a deprecated rule, which is all that is
\* wrong with the Spec, and validateSpec has returned the error about it
C29_Witness ==
    /\ ValidateSpecReturned
    /\ IDsAndCategoriesFine
    /\ ~SomeCategoryReplacementBad
    /\ \A i \in 1..Len(vdSpec.Rules) :
           Len(vdSpec.Rules[i].ReplacementIDs) > 0 => vdSpec.Rules[i].Deprecated
    /\ ValidateSpecError =
           newValidateRuleSpecErrorf("specified replacement ID which also deprecated", <<2, 1>>)

\* a category that is not deprecated has a replacement, which is all that is
\* wrong with the Spec, and validateSpec has returned the error about it
C29_WitnessCategory ==
    /\ ValidateSpecReturned
    /\ IDsAndCategoriesFine
    /\ ~SomeRuleReplacementBad
    /\ ValidateSpecError =
           errorsNew("CategorySpec.ReplacementIDs had values but Deprecated was false", <<3>>)

\* a rule's replacement is no rule / a category's replacement is deprecated,
\* and validateRuleSpecs / validateCategorySpecs have returned the error
C29_WitnessNotFound ==
    /\ vdResult.pc = "validateRuleSpecs"
    /\ vdResult.validateRuleSpecs =
           newValidateRuleSpecErrorf("specified replacement ID which was not found", <<1, 3>>)

C29_WitnessCategoryDeprecated ==
    /\ vdResult.pc = "validateCategorySpecs"
    /\ vdResult.validateCategorySpecs =
           errorsNew("Deprecated CategorySpec specified replacement ID which also deprecated", <<2, 3>>)

\* some RuleSpec is both deprecated and a default rule
SomeDeprecatedDefault ==
    \E i \in 1..Len(vdSpec.Rules) :
        vdSpec.Rules[i].Deprecated /\ vdSpec.Rules[i].IsDefault

\* C30: a deprecated rule cannot be a default rule: validation rejects a
\* RuleSpec with both Deprecated and IsDefault set, so no Rule that a
\* validated provider lists is both deprecated and default.
C30_NoDeprecatedDefaultRule ==
    /\ (ValidateSpecReturned /\ SomeDeprecatedDefault)
           => ValidateSpecError # NoValidateError
    /\ vdResult.pc = "listed" =>
           \A i \in 1..Len(vdResult.listed) :
               ~(vdResult.listed[i].deprecated /\ vdResult.listed[i].default)

\* the provider of a Spec that validateSpec accepted lists a rule that is
\* deprecated and default
C30_DeprecatedDefaultListed ==
    /\ vdResult.pc = "listed"
    /\ vdResult.validateSpec = NoValidateError
    /\ \E i \in 1..Len(vdResult.listed) :
           vdResult.listed[i].deprecated /\ vdResult.listed[i].default


\* the Spec has at least one rule, IDs unique across rules and categories,
\* ID, purpose, type and handler set on every rule, ID and purpose set on
\* every category, every rule category declared, every category named by
\* some rule, and replacement IDs only on deprecated specs and naming
\* non-deprecated specs of the same kind
SpecWellFormed ==
    /\ Len(vdSpec.Rules) > 0
    /\ ~SomeIDShared
    /\ \A i \in 1..Len(vdSpec.Rules) :
           /\ vdSpec.Rules[i].ID # 0
           /\ vdSpec.Rules[i].Purpose # ""
           /\ vdSpec.Rules[i].Type \in {"RuleTypeLint", "RuleTypeBreaking"}
           /\ vdSpec.Rules[i].Handler # Nil
    /\ \A j \in 1..Len(vdSpec.Categories) :
           /\ vdSpec.Categories[j].ID # 0
           /\ vdSpec.Categories[j].Purpose # ""
    /\ ~SomeCategoryUndeclared
    /\ ~SomeCategoryUnnamed
    /\ ~SomeRuleReplacementBad
    /\ ~SomeCategoryReplacementBad

C31_WitnessReplaced ==
    /\ ValidateSpecReturned
    /\ SpecWellFormed
    /\ ValidateSpecError = NoValidateError
    /\ \E i \in 1..Len(vdSpec.Rules) : Len(vdSpec.Rules[i].ReplacementIDs) > 0

\* validateSpec has accepted a Spec with a deprecated category that a
\* category replaces
C31_WitnessCategoryReplaced ==
    /\ ValidateSpecReturned
    /\ SpecWellFormed
    /\ ValidateSpecError = NoValidateError
    /\ \E j \in 1..Len(vdSpec.Categories) :
           Len(vdSpec.Categories[j].ReplacementIDs) > 0


(***************************************************************************)
(* SpecNewRequest: a caller constructs a Request from files, against files, *)
(* WithOption options and rule IDs, with NewRequest or, the arguments      *)
(* coming in a CheckRequest, with RequestForProtoRequest.                  *)
(***************************************************************************)
\* the WithOption options a caller passes: up to MaxOptions of them, with
\* two keys and two values
GivenOptionLists ==
    UNION {[1..n -> [key : {"j", "k"}, value : {"v", "w"}]] : n \in 0..MaxOptions}

GivenFileLists ==
    {<<>>, <<CollectorRequest.files[1]>>, CollectorRequest.files}

InitNewRequest ==
    /\ nrGiven \in [files : GivenFileLists,
                    againstFiles : {<<>>, CollectorRequest.againstFiles},
                    options : GivenOptionLists,
                    ruleIDs : {<<>>, <<2, 1>>}]
    /\ nrResult = [pc |-> "given", request |-> NilRequest, err |-> Nil]
    /\ aaOptions = newAddAnnotationOptions
    /\ aaResult = [pc |-> "unused", m |-> NilMultiResponseWriter]
    /\ vdSpec = NilSpec
    /\ vdResult = NotValidated
    /\ CollectorStart
    /\ CheckUnused
    /\ RequestUnused
    /\ PagingUnused
    /\ ChunkedUnused
    /\ ListingUnused

\* the CheckRequest that carries the arguments
GivenProtoRequest ==
    [files |-> Map(nrGiven.files, fileToProto),
     againstFiles |-> Map(nrGiven.againstFiles, fileToProto),
     ruleIds |-> nrGiven.ruleIDs,
     options |-> nrGiven.options]

\* NewRequest(files, WithAgainstFiles(...), WithRuleIDs(...), WithOption(...)...)
NewRequestCall ==
    /\ nrResult.pc = "given"
    /\ \E r \in {newRequest(nrGiven.files,
                     withProtoOptions(
                         WithRuleIDs(WithAgainstFiles(newRequestOptions,
                                                      nrGiven.againstFiles),
                                     nrGiven.ruleIDs),
                         nrGiven.options))} :
           nrResult' = [pc |-> "NewRequest", request |-> r.request, err |-> r.err]
    /\ UNCHANGED nrGiven
    /\ UNCHANGED otherThanNewRequest

\* RequestForProtoRequest(protoRequest)
RequestForProtoRequestCall ==
    /\ nrResult.pc = "given"
    /\ \E r \in {RequestForProtoRequest(GivenProtoRequest)} :
           nrResult' = [pc |-> "RequestForProtoRequest",
                        request |-> r.request, err |-> r.err]
    /\ UNCHANGED nrGiven
    /\ UNCHANGED otherThanNewRequest

NextNewRequest == NewRequestCall \/ RequestForProtoRequestCall

SpecNewRequest == InitNewRequest /\ [][NextNewRequest]_vars

\* a constructor has returned a Request
RequestReturned ==
    /\ nrResult.pc \in {"NewRequest", "RequestForProtoRequest"}
    /\ nrResult.err = Nil

\* C32: the Files of a Request are never nil or empty: NewRequest and
\* RequestForProtoRequest return an error instead of a Request when they are
\* given an empty file list.
C32_FilesNeverEmpty ==
    /\ RequestReturned => Len(nrResult.request.files) > 0
    /\ (nrResult.pc # "given" /\ Len(nrGiven.files) = 0) => nrResult.err # Nil

\* NewRequest has returned a Request without files, and no error
C32_RequestWithoutFiles ==
    /\ nrResult.pc = "NewRequest"
    /\ nrResult.err = Nil
    /\ nrResult.request.files = <<>>

\* the same key is given in two of the options
SomeOptionKeyTwice ==
    \E i, j \in 1..Len(nrGiven.options) :
        i # j /\ nrGiven.options[i].key = nrGiven.options[j].key

\* C33: Options hold no duplicate keys and this is enforced at construction:
\* building a Request with the same option key given twice (two WithOption
\* calls, or two proto options with one key in RequestForProtoRequest)
\* returns an error rather than keeping one of the two values.
C33_DuplicateOptionKeyRejected ==
    (nrResult.pc # "given" /\ SomeOptionKeyTwice) => nrResult.err # Nil

\* a key is given with two values, and the Request returned maps it to the
\* value given last
C33_LastValueKept ==
    /\ RequestReturned
    /\ Len(nrGiven.options) = 2
    /\ nrGiven.options[1].key = nrGiven.options[2].key
    /\ nrGiven.options[1].value # nrGiven.options[2].value
    /\ nrResult.request.options[nrGiven.options[1].key] = nrGiven.options[2].value

(***************************************************************************)
(* SpecAnnotate: one AddAnnotation call, with any options, on the collector *)
(* of a new Check.                                                          *)
(***************************************************************************)
\* the descriptors a caller passes: none, one of a file of the Request, one of
\* an unknown file, and one whose ParentFile() is nil
GivenDescriptors ==
    {NilDescriptor, Descriptor("a.proto", <<4, 1>>),
     Descriptor("z.proto", <<4, 1>>), Descriptor("", <<>>)}

\* b.proto is one of the Request's files and none of its against files
OptionFileNames == {"", "a.proto", "b.proto", "z.proto"}

GivenSourcePaths == {<<>>, <<4, 0>>}

\* the addAnnotationOptions after the caller's options were applied
GivenAddAnnotationOptions ==
    {WithAgainstSourcePath(WithAgainstFileName(WithAgainstDescriptor(
         WithSourcePath(WithFileName(WithDescriptor(OptMessage, d), n), p),
         ad), an), ap) :
        d \in GivenDescriptors, n \in OptionFileNames, p \in GivenSourcePaths,
        ad \in GivenDescriptors, an \in OptionFileNames, ap \in GivenSourcePaths}

\* the collector of a new Check on CollectorRequest
InitAnnotate ==
    /\ aaOptions = newAddAnnotationOptions
    /\ aaResult = [pc |-> "new", m |-> newMultiResponseWriter(CollectorRequest).m]
    /\ vdSpec = NilSpec
    /\ vdResult = NotValidated
    /\ nrGiven = [files |-> <<>>, againstFiles |-> <<>>, options |-> <<>>,
                  ruleIDs |-> <<>>]
    /\ nrResult = [pc |-> "unused", request |-> NilRequest, err |-> Nil]
    /\ CollectorStart
    /\ CheckUnused
    /\ RequestUnused
    /\ PagingUnused
    /\ ChunkedUnused
    /\ ListingUnused

\* AddAnnotation(options...): each option is applied to newAddAnnotationOptions()
ApplyOptions(o) ==
    /\ aaResult.pc = "new"
    /\ aaOptions' = o
    /\ aaResult' = [aaResult EXCEPT !.pc = "options"]
    /\ UNCHANGED otherThanAnnotate

\* addAnnotation of the ResponseWriter of rule 1, from Lock to Unlock
AddAnnotationOnce ==
    /\ aaResult.pc = "options"
    /\ aaResult' = [pc |-> "added", m |-> addAnnotation(aaResult.m, 1, aaOptions)]
    /\ UNCHANGED aaOptions
    /\ UNCHANGED otherThanAnnotate

NextAnnotate ==
    \/ \E o \in GivenAddAnnotationOptions : ApplyOptions(o)
    \/ AddAnnotationOnce

SpecAnnotate == InitAnnotate /\ [][NextAnnotate]_vars

\* the call gave neither a descriptor nor a file name
NoLocationGiven(d, fileName) == ~d.present /\ fileName = ""

\* C35: an AddAnnotation call that combines a descriptor with a file name or a
\* source path, gives a source path without a file name, does either with the
\* Against options, or names a file that is not one of the Request's files
\* (against files for the Against options) records an error and adds no
\* annotation; a call with neither descriptor nor file name that is not
\* rejected so adds an annotation without location.
C35_BadOptionsAreRejected ==
    aaResult.pc = "added" =>
        /\ (BadCombination(aaOptions) \/ UnknownFile(aaOptions, CollectorRequest)) =>
               /\ aaResult.m.annotations = <<>>
               /\ Len(aaResult.m.errs) = 1
        /\ ( /\ NoLocationGiven(aaOptions.descriptor, aaOptions.fileName)
             /\ ~BadCombination(aaOptions)
             /\ ~UnknownFile(aaOptions, CollectorRequest) ) =>
               /\ aaResult.m.errs = <<>>
               /\ Len(aaResult.m.annotations) = 1
               /\ aaResult.m.annotations[1].location = NilLocation
               /\ NoLocationGiven(aaOptions.againstDescriptor,
                                  aaOptions.againstFileName) =>
                      aaResult.m.annotations[1].againstLocation = NilLocation

\* an against source path without an against file name was rejected
C35_Witness ==
    /\ aaResult.pc = "added"
    /\ aaOptions = WithAgainstSourcePath(OptFilePath, <<4, 0>>)
    /\ aaResult.m.errs = <<errAgainstPathWithoutFileName>>
    /\ aaResult.m.annotations = <<>>

\* a file of the Request that is none of its against files was rejected as
\* the against file
C35_WitnessUnknownAgainstFile ==
    /\ aaResult.pc = "added"
    /\ aaOptions = OptUnknownAgainst
    /\ aaResult.m.errs = <<errUnknownFile>>
    /\ aaResult.m.annotations = <<>>

\* a call with a message only added an annotation without locations
C35_WitnessNoLocation ==
    /\ aaResult.pc = "added"
    /\ aaOptions = OptMessage
    /\ aaResult.m.annotations = <<newAnnotation(1, "m", NilLocation, NilLocation)>>

(***************************************************************************)
(* SpecFiles: one Check, on a provider or through its Client, of a Request  *)
(* whose files or against files may hold a path twice.                      *)
(***************************************************************************)
FileA == [name |-> "a.proto", isImport |-> FALSE]
FileAImport == [name |-> "a.proto", isImport |-> TRUE]
FileB == [name |-> "b.proto", isImport |-> TRUE]

\* the lists a caller gives as files and as against files
GivenFileSets ==
    {<<>>, <<FileA>>, <<FileA, FileB>>, <<FileA, FileA>>,
     <<FileA, FileB, FileAImport>>}

\* NewRequest(files, WithAgainstFiles, WithRuleIDs) of the caller
FileRequests ==
    {newRequest(files,
                WithRuleIDs(WithAgainstFiles(newRequestOptions, againstFiles),
                            filter)).request :
        files \in GivenFileSets \ {<<>>}, againstFiles \in GivenFileSets,
        filter \in {<<>>, <<1>>}}

InitFiles ==
    /\ clients \in {<<p>> : p \in Providers("one")}
    /\ callerRequest \in FileRequests
    /\ mc = McStart
    /\ cresult = Pending
    /\ lresult = NoListing
    /\ calls = [i \in 1..Len(clients) |-> NoCalls]
    /\ CollectorStart
    /\ RequestUnused
    /\ OthersUnused

NextFiles ==
    \/ \E k \in 1..Len(clients) : ProviderCheck(k)
    \/ \E k \in 1..Len(clients) : ClientCheck(k)

SpecFiles == InitFiles /\ [][NextFiles]_vars

\* two of the files have the same path
SamePathTwice(files) ==
    \E i, j \in 1..Len(files) : i # j /\ files[i].name = files[j].name

\* a path is among the files and among the against files
SharedPath(request) ==
    FileNamesOf(request.files) \cap FileNamesOf(request.againstFiles) # {}

\* C36: a Check, on the provider or through the Client, of a Request with a
\* path twice among its files or twice among its against files fails with the
\* duplicate-file-name error, no handler is invoked and the Client calls no
\* provider; a path that is once among the files and once among the against
\* files does not make the Check fail.
C36_DuplicatePathsRejectedPerSet ==
    mc.pc = "done" =>
        /\ ( \/ SamePathTwice(callerRequest.files)
             \/ SamePathTwice(callerRequest.againstFiles) ) =>
               /\ ~cresult.ok
               /\ cresult.err = PlainError(errDuplicateFileName)
               /\ calls[mc.i].invoked = <<>>
               /\ mc.op = "client" => calls[mc.i].protos = <<>>
        /\ ( /\ ~SamePathTwice(callerRequest.files)
             /\ ~SamePathTwice(callerRequest.againstFiles) ) =>
               /\ cresult.err # PlainError(errDuplicateFileName)
               /\ callerRequest.ruleIDs = <<>> => cresult.ok

\* the Client rejected a Request with a path twice among the against files
C36_Witness ==
    /\ mc.pc = "done" /\ mc.op = "client"
    /\ ~SamePathTwice(callerRequest.files)
    /\ SamePathTwice(callerRequest.againstFiles)
    /\ cresult.err = PlainError(errDuplicateFileName)
    /\ calls[mc.i].protos = <<>>

\* the provider rejected a CheckRequest with a path twice among the files
C36_WitnessProvider ==
    /\ mc.pc = "done" /\ mc.op = "provider"
    /\ SamePathTwice(callerRequest.files)
    /\ cresult.err = PlainError(errDuplicateFileName)
    /\ calls[mc.i].invoked = <<>>

\* a Check of a Request with a.proto among the files and among the against
\* files returned a Response with an annotation
C36_WitnessSharedPath ==
    /\ mc.pc = "done" /\ mc.op = "client"
    /\ SharedPath(callerRequest)
    /\ cresult.ok
    /\ Len(cresult.annotations) > 0

(***************************************************************************)
(* The MultiClient and its delegates' own Checks.                           *)
(***************************************************************************)
\* Check of the caller's Request on the Client of delegate k alone
OwnCheck(k) == clientCheck(clients[k], callerRequest)

\* the annotations of the Responses of the own Checks of delegates 1..k
RECURSIVE OwnAnnotations(_)
OwnAnnotations(k) ==
    IF k = 0 THEN <<>>
    ELSE OwnAnnotations(k - 1) \o OwnCheck(k).result.annotations

\* MultiClient.Check over two or more delegates with pairwise disjoint rule
\* IDs has returned, and the caller's filter is empty
EmptyFilterMultiCheck ==
    /\ mc.pc = "done" /\ mc.op = "multi"
    /\ Len(clients) >= 2
    /\ \A j, k \in 1..Len(clients) :
           j # k => ListedIDs(j) \cap ListedIDs(k) = {}
    /\ callerRequest.ruleIDs = <<>>

\* the same rules were run and the same annotations returned, sorted, as by
\* the delegates' own Checks together
SameAsOwnChecks ==
    /\ UNION {SeqToSet(calls[k].invoked) : k \in 1..Len(clients)}
           = UNION {SeqToSet(OwnCheck(k).invoked) : k \in 1..Len(clients)}
    /\ cresult.annotations = sortAnnotations(OwnAnnotations(Len(clients)))

C38_SecondDelegateFails ==
    /\ EmptyFilterMultiCheck
    /\ OwnCheck(1).result.ok
    /\ OwnCheck(1).result.annotations # <<>>
    /\ ~OwnCheck(2).result.ok
    /\ ~cresult.ok
    /\ cresult.annotations = <<>>

\* C39: MultiClient.Check over two or more delegates with a filter that
\* holds a rule ID that no delegate lists fails and returns no Response.
C39_UnlistedRuleIDRejected ==
    ( /\ mc.pc = "done" /\ mc.op = "multi"
      /\ Len(clients) >= 2
      /\ ~(Filter \subseteq UNION {ListedIDs(k) : k \in 1..Len(clients)}) ) =>
        /\ ~cresult.ok
        /\ cresult.annotations = <<>>

\* the filter names one rule that a delegate lists and one that none lists;
\* MultiClient.Check returned a Response
C39_UnlistedRuleIDIgnored ==
    /\ mc.pc = "done" /\ mc.op = "multi"
    /\ Len(clients) >= 2
    /\ Cardinality(Filter) = 2
    /\ Cardinality(Filter \cap UNION {ListedIDs(k) : k \in 1..Len(clients)}) = 1
    /\ cresult.ok

\* Check on the Client of a single provider with the same kind of filter
\* failed with InvalidArgument
C39_SingleClientRejects ==
    /\ mc.pc = "done" /\ mc.op = "client"
    /\ ~(Filter \subseteq ListedIDs(mc.i))
    /\ ~cresult.ok
    /\ cresult.err.kind = "invalidArgument"

====
